---- MODULE Spec2Model ----
(***************************************************************************)
(* State-machine model of the receipt desk: the receipts table with its    *)
(* row level security policies, and the client pages that read and write   *)
(* it through asynchronous requests.                                       *)
(*                                                                         *)
(* Money: form values are exact decimals counted in units of 1/1000 rupee  *)
(* (Unit); stored DECIMAL(10,2) values are counted in paise.               *)
(* JavaScript doubles are modelled as exact decimals.                      *)
(***************************************************************************)
EXTENDS Integers, Sequences, FiniteSets, TLC

\* ------------------------------------------------------------------ bounds
MaxReceipts == 2
MaxInFlight == 2
\* the writes of the profile page in flight when a file is chosen stay below it
MaxUploads == 1

\* --------------------------------------------------------------- constants
Users == {"u1", "u2"}
NoUser == "none"
Ids == 1..MaxReceipts

VARIABLES
  receipts,    \* public.receipts: a set of rows
  usedIds,     \* ids gen_random_uuid() has handed out (never handed out twice)
  clock,       \* NOW(): it advances with every insert
  auth_users,  \* auth.users: a set of rows [id, email, created]
  user_roles,  \* public.user_roles: a set of rows [id, user_id, role]
  usedRoleIds, \* ids gen_random_uuid() has handed out to rows of user_roles
  profiles,    \* public.profiles: a set of rows, one per account
  receipt_templates, \* public.receipt_templates: a set of rows
  usedTemplateIds,   \* ids gen_random_uuid() has handed out to templates
  objects,     \* storage.objects: a set of rows [bucket_id, folder, stamp, owner]
  user,        \* the client's authenticated identity, or NoUser
  page,        \* the route the client shows
  routeId,     \* useParams().id of /receipt/:id (0: none)
  routeUser,   \* useParams().userId of /admin/user/:userId/receipts
  hist,        \* ReceiptHistory state: [receipts, loading]
  disp,        \* ReceiptDisplay state: [receipt, loading]
  dash,        \* Dashboard state: [stats, loading]
  adm,         \* Admin state: [isAdmin, loading, users, templates] and its joins
  admU,        \* AdminUserReceipts state: [receipts, userName, loading]
  prof,        \* Profile state: [userId, email, fullName, receiptCount, isAdmin, loading]
  lastSubmit,  \* the input the last step submitted on the receipt form, if it did
  toast,       \* the notice the last step raised ("": none)
  deleted,     \* ids whose delete the history page has seen complete successfully
  stmt,        \* the write statement the last step ran on receipts: [by, kind, id]
  net          \* requests in flight: [kind, actor, arg, who, cause, live, phase, ok, rows]

vars == <<receipts, usedIds, clock, auth_users, user_roles, usedRoleIds, profiles,
          receipt_templates, usedTemplateIds,
          objects, user, page, routeId, routeUser, hist, disp, dash, adm, admU, prof,
          lastSubmit, toast, deleted, stmt, net>>

\* ------------------------------------------------- row level security (SQL)
ReceiptIds == {r.id : r \in receipts}

\* USING (auth.uid() = user_id), FOR SELECT
\* a read policy that lets every row through
SelectPolicyAll(uid, row) == TRUE

SelectPolicy(uid, row) == uid = row.user_id

\* WITH CHECK (auth.uid() = user_id), FOR INSERT
InsertPolicy(uid, row) == uid = row.user_id

\* USING (auth.uid() = user_id), FOR UPDATE (the check of the new row defaults to it)
\* an update policy that lets every row through
UpdatePolicyAll(uid, row) == TRUE

UpdatePolicy(uid, row) == uid = row.user_id

\* USING (auth.uid() = user_id), FOR DELETE
\* a delete policy that lets no row through
DeletePolicyNone(uid, row) == FALSE

DeletePolicy(uid, row) == uid = row.user_id

Visible(uid) == {r \in receipts : SelectPolicy(uid, r)}

RECURSIVE OrderByCreatedAtDesc(_)
\* the rows of S, oldest first
OrderByCreatedAtAsc(S) ==
  [k \in 1..Cardinality(S) |->
     CHOOSE r \in S : Cardinality({q \in S : q.created_at < r.created_at}) = k - 1]

\* .order("created_at", { ascending: false }) on a set of rows
OrderByCreatedAtDesc(S) ==
  IF S = {} THEN <<>>
  ELSE LET m == CHOOSE r \in S : \A q \in S : q.created_at <= r.created_at
       IN  <<m>> \o OrderByCreatedAtDesc(S \ {m})

\* the columns the history page selects
HistoryColumns(r) ==
  [id |-> r.id, total_amount |-> r.total_amount, branch |-> r.branch,
   receipt_date |-> r.receipt_date, created_at |-> r.created_at]

Project(rows, Col(_)) == [i \in 1..Len(rows) |-> Col(rows[i])]

\* a DATE as a number that orders like it
DateKey(date) == (date.y * 12 + date.m) * 31 + date.d

\* -------------------------------------------- validation and computation
\* The form's amounts are exact decimals counted in units of 1/1000 rupee; a stored
\* amount is counted in paise, the step of a DECIMAL(10,2) column (10 units).
Unit == 1000
UnitsPerCent == 10

RECURSIVE SumItems(_)
\* subtotal = sum of quantity_i x price_i, folded from the left
SumItems(items) ==
  IF items = <<>> THEN 0
  ELSE SumItems(SubSeq(items, 1, Len(items) - 1))
       + items[Len(items)].quantity * items[Len(items)].price

\* a computation that leaves the tax out of the total
ComputeTotalsNoTax(items, taxRate) ==
  [subtotal |-> SumItems(items), tax |-> (SumItems(items) * taxRate) \div 100,
   total |-> SumItems(items)]

\* tax = subtotal x taxRate / 100 ; total = subtotal + tax
ComputeTotals(items, taxRate) ==
  LET subtotal == SumItems(items)
      tax == (subtotal * taxRate) \div 100
  IN  [subtotal |-> subtotal, tax |-> tax, total |-> subtotal + tax]

MaxNameLen == 100
MaxAddressLen == 200
MobileDigits == 10
MaxQuantity == 10000
MaxPrice == 1000000
MaxTaxRate == 100

\* an empty date field
NoDate == [y |-> 0, m |-> 0, d |-> 0]

ItemValid(it) ==
  /\ it.name_len >= 1 /\ it.name_len <= MaxNameLen
  /\ it.quantity > 0 /\ it.quantity <= MaxQuantity
  /\ it.price > 0 /\ it.price <= MaxPrice * Unit

\* a validation without the rule on the item list
ValidateNoItemRules(input) ==
  IF input.name_len < 1 \/ input.name_len > MaxNameLen THEN "name"
  ELSE IF ~(input.mobile_len = MobileDigits /\ input.mobile_digits) THEN "mobile"
  ELSE IF input.address_len < 1 \/ input.address_len > MaxAddressLen THEN "address"
  ELSE IF input.branch = "" THEN "branch"
  ELSE IF input.receipt_date = NoDate THEN "date"
  ELSE IF input.tax_rate < 0 \/ input.tax_rate > MaxTaxRate THEN "tax"
  ELSE "ok"

\* the first violated rule, or "ok"
Validate(input) ==
  IF input.name_len < 1 \/ input.name_len > MaxNameLen THEN "name"
  ELSE IF ~(input.mobile_len = MobileDigits /\ input.mobile_digits) THEN "mobile"
  ELSE IF input.address_len < 1 \/ input.address_len > MaxAddressLen THEN "address"
  ELSE IF input.branch = "" THEN "branch"
  ELSE IF input.receipt_date = NoDate THEN "date"
  ELSE IF Len(input.items) < 1 THEN "items"
  ELSE IF \E i \in 1..Len(input.items) : ~ItemValid(input.items[i]) THEN "item"
  ELSE IF input.tax_rate < 0 \/ input.tax_rate > MaxTaxRate THEN "tax"
  ELSE "ok"

\* a value as a DECIMAL(10,2) column stores it: rounded to the paisa, half up
ToDecimal2(x) == (x + (UnitsPerCent \div 2)) \div UnitsPerCent

\* ------------------------------------------------------------ dashboard
RECURSIVE SumAmounts(_)
\* a sum that stops after the first row
SumAmountsOfFirst(rows) == IF rows = <<>> THEN 0 ELSE rows[1].total_amount

\* receipts.reduce((sum, r) => sum + Number(r.total_amount), 0)
SumAmounts(rows) ==
  IF rows = <<>> THEN 0
  ELSE SumAmounts(SubSeq(rows, 1, Len(rows) - 1)) + rows[Len(rows)].total_amount

\* a grouping that opens a new entry for every row
BranchSetAppend(acc, r) ==
  Append(acc, [branch |-> r.branch, amount |-> 0 + r.total_amount, count |-> 0 + 1])

\* branchMap.set(r.branch, {amount + total_amount, count + 1}): a Map keeps a key
\* at the place of its first insertion
BranchSet(acc, r) ==
  IF \E k \in DOMAIN acc : acc[k].branch = r.branch
  THEN [k \in DOMAIN acc |->
          IF acc[k].branch = r.branch
          THEN [branch |-> acc[k].branch, amount |-> acc[k].amount + r.total_amount,
                count |-> acc[k].count + 1]
          ELSE acc[k]]
  ELSE Append(acc, [branch |-> r.branch, amount |-> 0 + r.total_amount, count |-> 0 + 1])

RECURSIVE BranchData(_)
BranchData(rows) ==
  IF rows = <<>> THEN <<>>
  ELSE BranchSet(BranchData(SubSeq(rows, 1, Len(rows) - 1)), rows[Len(rows)])

\* date.toLocaleString('default', { month: 'short', year: 'numeric' })
MonthKey(date) == <<date.m, date.y>>

MonthSet(acc, r) ==
  IF \E k \in DOMAIN acc : acc[k].month = MonthKey(r.receipt_date)
  THEN [k \in DOMAIN acc |->
          IF acc[k].month = MonthKey(r.receipt_date)
          THEN [month |-> acc[k].month, amount |-> acc[k].amount + r.total_amount]
          ELSE acc[k]]
  ELSE Append(acc, [month |-> MonthKey(r.receipt_date), amount |-> 0 + r.total_amount])

RECURSIVE MonthMap(_)
MonthMap(rows) ==
  IF rows = <<>> THEN <<>>
  ELSE MonthSet(MonthMap(SubSeq(rows, 1, Len(rows) - 1)), rows[Len(rows)])

MonthsKept == 6

\* a truncation that keeps the first entries of the map
MonthlyDataFirst(rows) ==
  LET all == MonthMap(rows)
  IN  IF Len(all) <= MonthsKept THEN all ELSE SubSeq(all, 1, MonthsKept)

\* Array.from(monthMap.entries()).map(...).slice(-6)
MonthlyData(rows) ==
  LET all == MonthMap(rows)
  IN  IF Len(all) <= MonthsKept THEN all
      ELSE SubSeq(all, Len(all) - MonthsKept + 1, Len(all))

ComputeStats(rows) ==
  [totalIncome |-> SumAmounts(rows), totalReceipts |-> Len(rows),
   branchData |-> BranchData(rows), monthlyData |-> MonthlyData(rows)]

InitialStats ==
  [totalIncome |-> 0, totalReceipts |-> 0, branchData |-> <<>>, monthlyData |-> <<>>]

\* (n / d).toFixed(2), n in paise: the quotient rounded to the paisa. Halfway
\* between two paise the binary value of the quotient decides, so either may print.
ToFixed2Div(n, d) ==
  IF 2 * (n % d) < d THEN {n \div d}
  ELSE IF 2 * (n % d) > d THEN {n \div d + 1}
  ELSE {n \div d, n \div d + 1}

\* stats.totalReceipts > 0 ? (totalIncome / totalReceipts).toFixed(2) : '0.00'
\* (the values the card may show)
AvgReceiptValue(stats) ==
  IF stats.totalReceipts > 0 THEN ToFixed2Div(stats.totalIncome, stats.totalReceipts)
  ELSE {0}

\* ------------------------------------------------------------- requests
Req(kind, actor, arg, cause, rows) ==
  [kind |-> kind, actor |-> actor, arg |-> arg, who |-> NoUser, cause |-> cause,
   live |-> TRUE, phase |-> "sent", ok |-> FALSE, rows |-> rows]

\* a request whose filter names a user id
ReqUser(kind, actor, who, live) ==
  [Req(kind, actor, 0, 0, <<>>) EXCEPT !.who = who, !.live = live]

RemoveAt(q, i) == SubSeq(q, 1, i - 1) \o SubSeq(q, i + 1, Len(q))

\* a component that unmounts: setState calls of its pending requests do nothing
Unmount(q) == [i \in DOMAIN q |-> [q[i] EXCEPT !.live = FALSE]]

HistInit == [receipts |-> <<>>, loading |-> TRUE]
DispInit == [receipt |-> <<>>, loading |-> TRUE]
DashInit == [stats |-> InitialStats, loading |-> TRUE]
AdmInit ==
  [isAdmin |-> FALSE, loading |-> TRUE, users |-> <<>>, templates |-> <<>>,
   pending |-> <<>>, usersDone |-> FALSE, templatesDone |-> FALSE,
   editingUser |-> NoUser, editDialogOpen |-> FALSE]
AdmUInit == [receipts |-> <<>>, userName |-> "", loading |-> TRUE]
ProfInit ==
  [userId |-> "", email |-> "", fullName |-> "", profileImageUrl |-> <<>>,
   receiptCount |-> 0, isAdmin |-> FALSE, loading |-> FALSE]
NoInput ==
  [name_len |-> 0, mobile_len |-> 0, mobile_digits |-> FALSE, address_len |-> 0,
   branch |-> "", receipt_date |-> NoDate, items |-> <<>>, tax_rate |-> 0]
NoSubmit == [submitted |-> FALSE, input |-> NoInput]
NoStmt == [by |-> NoUser, kind |-> "", id |-> 0]

\* ------------------------------------------------------------ accounts
MaxRoleIds == 6
MaxTemplateIds == 3

\* the ids of the accounts that sign up
AccountPool == Users \cup {"u3"}

\* auth.users.email of the account
EmailOf(u) ==
  CASE u = "u1" -> "one@example.com"
    [] u = "u2" -> "two@example.com"
    [] OTHER    -> "three@example.com"

\* an address no account has
NoEmail == "nobody@example.com"

\* a first-user trigger that promotes the role row of the account of NEW
MakeFirstUserAdminOfAccount(roles, new) ==
  IF ~\E r \in roles : r.id # new.id
  THEN {IF r.user_id = new.user_id /\ r.role = "user" THEN [r EXCEPT !.role = "admin"]
        ELSE r : r \in roles}
  ELSE roles

\* make_first_user_admin(), AFTER INSERT ON user_roles FOR EACH ROW, on the table
\* that holds the new row already: IF NOT EXISTS (... WHERE id != NEW.id) THEN
\* UPDATE ... SET role = 'admin' WHERE user_id = NEW.id AND role = 'user'.
\* NEW is the row of user_roles, so NEW.id is the id of that row.
MakeFirstUserAdmin(roles, new) ==
  IF ~\E r \in roles : r.id # new.id
  THEN {IF r.user_id = new.id /\ r.role = "user" THEN [r EXCEPT !.role = "admin"] ELSE r :
          r \in roles}
  ELSE roles

\* INSERT INTO public.user_roles, and its trigger
InsertRole(roles, new) == MakeFirstUserAdmin(roles \cup {new}, new)

\* gen_random_uuid() for a row of user_roles: an id no row and no account has had
RoleIdNames == <<"r1", "r2", "r3", "r4", "r5", "r6", "r7", "r8">>
FreshRoleId == RoleIdNames[Cardinality(usedRoleIds) + 1]

\* the values handleCreateTemplate and the form fall back to
TemplateDefaults ==
  [header_bg_color |-> "#1a1a1a", header_text_color |-> "#ffffff",
   body_bg_color |-> "#ffffff", body_text_color |-> "#000000",
   accent_color |-> "#3b82f6", font_family |-> "Arial"]

\* the template the application comes with, the only one flagged as default
DefaultTemplate ==
  [id |-> 1, name |-> "Default", is_default |-> TRUE] @@ TemplateDefaults

\* the accounts of Users have signed up, u1 first, and u1 has been made admin
SeededAccounts ==
  /\ auth_users = {[id |-> "u1", email |-> EmailOf("u1"), created |-> 1],
                   [id |-> "u2", email |-> EmailOf("u2"), created |-> 2]}
  /\ user_roles = {[id |-> "r3", user_id |-> "u1", role |-> "admin"],
                   [id |-> "r2", user_id |-> "u2", role |-> "user"]}
  /\ usedRoleIds = {"r1", "r2", "r3"}
  /\ profiles = {[id |-> u, email |-> EmailOf(u), full_name |-> u] : u \in Users}
  /\ receipt_templates = {DefaultTemplate} /\ usedTemplateIds = {1}
  /\ objects = {}

Init ==
  /\ receipts = {}
  /\ usedIds = {}
  /\ clock = 0
  /\ SeededAccounts
  /\ user = NoUser
  /\ page = "auth"
  /\ routeId = 0
  /\ routeUser = NoUser
  /\ hist = HistInit
  /\ disp = DispInit
  /\ dash = DashInit
  /\ adm = AdmInit
  /\ admU = AdmUInit
  /\ prof = ProfInit
  /\ lastSubmit = NoSubmit
  /\ toast = ""
  /\ deleted = {}
  /\ stmt = NoStmt
  /\ net = <<>>

accounts ==
  <<auth_users, user_roles, usedRoleIds, profiles, receipt_templates, usedTemplateIds>>
backend == <<receipts, usedIds, clock, accounts, objects>>
admin == <<adm, admU>>
session == <<user, routeUser, prof>>
client == <<user, routeUser, page, routeId, hist, disp, dash, adm, admU, prof>>

\* the user leaves a page once its requests have completed
Settled == net = <<>>

\* a step that raises a notice, and one that raises none
Notice(msg) ==
  toast' = msg /\ lastSubmit' = NoSubmit /\ stmt' = NoStmt /\ deleted' = deleted
Quiet == Notice("")

\* a step of the database that runs a write statement under the identity `by`
Wrote(by, kind, id) ==
  /\ toast' = "" /\ lastSubmit' = NoSubmit /\ deleted' = deleted
  /\ stmt' = [by |-> by, kind |-> kind, id |-> id]

\* ------------------------------------------------- accounts: operations
\* An account signs up: the row of auth.users, and handle_new_user() inserts the
\* profile and the role 'user'
CreateAccount(u) ==
  /\ u \in AccountPool \ {a.id : a \in auth_users}
  /\ Cardinality(usedRoleIds) < MaxRoleIds
  /\ auth_users' = auth_users
                     \cup {[id |-> u, email |-> EmailOf(u),
                            created |-> Cardinality(auth_users) + 1]}
  /\ profiles' = profiles \cup {[id |-> u, full_name |-> u, email |-> EmailOf(u)]}
  /\ user_roles' = InsertRole(user_roles, [id |-> FreshRoleId, user_id |-> u, role |-> "user"])
  /\ usedRoleIds' = usedRoleIds \cup {FreshRoleId}
  /\ Quiet
  /\ UNCHANGED <<receipts, usedIds, clock, objects, receipt_templates, usedTemplateIds,
                 client, net>>

\* An account signs up in a transaction of its own: the inserts and the triggers
\* run on the rows committed so far and on the rows of the transaction itself,
\* and the role row, as the trigger left it, waits for the commit
RunCreateAccount(u) ==
  /\ u \in AccountPool \ ({a.id : a \in auth_users} \cup {net[i].who : i \in DOMAIN net})
  /\ Cardinality(usedRoleIds) < MaxRoleIds
  /\ LET new == [id |-> FreshRoleId, user_id |-> u, role |-> "user"]
     IN  net' = Append(net, [ReqUser("signUp", NoUser, u, TRUE)
                               EXCEPT !.phase = "done", !.ok = TRUE,
                                      !.rows = <<CHOOSE r \in InsertRole(user_roles, new) :
                                                   r.id = new.id>>])
  /\ usedRoleIds' = usedRoleIds \cup {FreshRoleId}
  /\ Quiet
  /\ UNCHANGED <<receipts, usedIds, clock, objects, auth_users, user_roles, profiles,
                 receipt_templates, usedTemplateIds, client>>

\* the transaction of a sign-up commits: its rows become visible to the others
CommitCreateAccount(i) ==
  /\ net[i].kind = "signUp" /\ net[i].phase = "done"
  /\ LET u == net[i].who
         written == {net[i].rows[k] : k \in DOMAIN net[i].rows}
     IN  /\ auth_users' = auth_users
                            \cup {[id |-> u, email |-> EmailOf(u),
                                   created |-> Cardinality(auth_users) + 1]}
         /\ profiles' = profiles \cup {[id |-> u, full_name |-> u, email |-> EmailOf(u)]}
         /\ user_roles' = {r \in user_roles : \A w \in written : w.id # r.id} \cup written
  /\ net' = RemoveAt(net, i)
  /\ Quiet
  /\ UNCHANGED <<receipts, usedIds, clock, objects, usedRoleIds, receipt_templates,
                 usedTemplateIds, user, routeUser, page, routeId, hist, disp, dash, adm,
                 admU, prof>>

\* a promotion that inserts the admin row and leaves the old rows in place
MakeUserAdminByEmailKeep(user_email) ==
  LET target == {a.id : a \in {x \in auth_users : x.email = user_email}}
  IN  /\ target # {}
      /\ Cardinality(usedRoleIds) < MaxRoleIds
      /\ user_roles' = InsertRole(user_roles,
                                  [id |-> FreshRoleId, user_id |-> CHOOSE t \in target : TRUE,
                                   role |-> "admin"])
      /\ usedRoleIds' = usedRoleIds \cup {FreshRoleId}
      /\ Quiet
      /\ UNCHANGED <<receipts, usedIds, clock, objects, auth_users, profiles,
                     receipt_templates, usedTemplateIds,
                     client, net>>

\* make_user_admin_by_email(user_email): the exception when no account has the
\* address, else DELETE the roles of the account and INSERT the role 'admin'
MakeUserAdminByEmail(user_email) ==
  LET target == {a.id : a \in {x \in auth_users : x.email = user_email}}
  IN  /\ IF target = {}
         THEN /\ UNCHANGED <<user_roles, usedRoleIds>>
              /\ Notice("User with email not found")
         ELSE /\ Cardinality(usedRoleIds) < MaxRoleIds
              /\ LET t == CHOOSE a \in target : TRUE
                 IN  user_roles' =
                       InsertRole({r \in user_roles : r.user_id # t},
                                  [id |-> FreshRoleId, user_id |-> t, role |-> "admin"])
              /\ usedRoleIds' = usedRoleIds \cup {FreshRoleId}
              /\ Quiet
      /\ UNCHANGED <<receipts, usedIds, clock, objects, auth_users, profiles,
                     receipt_templates, usedTemplateIds,
                     client, net>>

\* ------------------------------------------------------------- session
\* navigate("/"): the Dashboard mounts (unless it is shown already) and fetches
NavDashboard(q, actor) ==
  IF page = "dashboard" THEN q
  ELSE Append(Unmount(q), Req("dashList", actor, 0, 0, <<>>))

\* the sign-in entry point: a session starts and the client goes to "/"
SignIn(u) ==
  /\ user = NoUser /\ page = "auth"
  /\ Settled
  /\ user' = u
  /\ page' = "dashboard"
  /\ net' = NavDashboard(net, u)
  /\ hist' = HistInit /\ disp' = DispInit /\ dash' = DashInit
  /\ adm' = AdmInit /\ admU' = AdmUInit /\ prof' = ProfInit
  /\ Quiet
  /\ UNCHANGED <<backend, routeId, routeUser>>

\* handleSignOut: await supabase.auth.signOut(); navigate("/auth")
SignOut ==
  /\ page \in {"dashboard", "history", "receipt"}
  /\ Settled
  /\ user' = NoUser
  /\ page' = "auth"
  /\ net' = Unmount(net)
  /\ hist' = HistInit /\ disp' = DispInit /\ dash' = DashInit
  /\ adm' = AdmInit /\ admU' = AdmUInit /\ prof' = ProfInit
  /\ Quiet
  /\ UNCHANGED <<backend, routeId, routeUser>>

\* ----------------------------------------------------------- Dashboard
\* useEffect(() => { fetchDashboardData(); }, []) on mount of "/"
OpenDashboard ==
  /\ page # "dashboard"
  /\ Settled
  /\ page' = "dashboard"
  /\ net' = NavDashboard(net, user)
  /\ hist' = HistInit /\ disp' = DispInit /\ dash' = DashInit
  /\ adm' = AdmInit /\ admU' = AdmUInit
  /\ Quiet
  /\ UNCHANGED <<backend, session, routeId>>

\* fetchDashboardData, after the await
DeliverDashList(i) ==
  /\ net[i].kind = "dashList" /\ net[i].phase = "done"
  /\ net' = RemoveAt(net, i)
  /\ IF net[i].ok
     THEN /\ dash' = IF net[i].live
                     THEN [stats |-> ComputeStats(net[i].rows), loading |-> FALSE]
                     ELSE dash
          /\ Quiet
     ELSE /\ Notice("Failed to load dashboard data")
          /\ dash' = IF net[i].live THEN [dash EXCEPT !.loading = FALSE] ELSE dash
  /\ UNCHANGED <<backend, session, page, routeId, hist, disp, admin>>

\* ------------------------------------------------------ ReceiptHistory
\* useEffect(() => { fetchReceipts(); }, []) on mount of /history
OpenHistory ==
  /\ page # "history"
  /\ Settled
  /\ page' = "history"
  /\ net' = Append(Unmount(net), Req("histList", user, 0, 0, <<>>))
  /\ hist' = HistInit /\ disp' = DispInit /\ dash' = DashInit
  /\ adm' = AdmInit /\ admU' = AdmUInit
  /\ Quiet
  /\ UNCHANGED <<backend, session, routeId>>

\* a handleDelete that does not look at the answer of confirm()
HandleDeleteUnasked(id, confirmed) ==
  /\ page = "history" /\ ~hist.loading
  /\ \E k \in DOMAIN hist.receipts : hist.receipts[k].id = id
  /\ Len(net) < MaxInFlight
  /\ net' = Append(net, Req("histDelete", user, id, 0, <<>>))
  /\ Quiet
  /\ UNCHANGED <<backend, session, page, routeId, hist, disp, dash, admin>>

\* handleDelete(id): confirm(), then the delete request
HandleDelete(id, confirmed) ==
  /\ page = "history" /\ ~hist.loading
  /\ \E k \in DOMAIN hist.receipts : hist.receipts[k].id = id
  /\ IF ~confirmed
     THEN UNCHANGED net
     ELSE /\ Len(net) < MaxInFlight
          /\ net' = Append(net, Req("histDelete", user, id, 0, <<>>))
  /\ Quiet
  /\ UNCHANGED <<backend, session, page, routeId, hist, disp, dash, admin>>

\* fetchReceipts, after the await
DeliverHistList(i) ==
  /\ net[i].kind = "histList" /\ net[i].phase = "done"
  /\ net' = RemoveAt(net, i)
  /\ IF net[i].ok
     THEN /\ hist' = IF net[i].live
                     THEN [receipts |-> Project(net[i].rows, HistoryColumns),
                           loading |-> FALSE]
                     ELSE hist
          /\ Quiet
     ELSE /\ Notice("Failed to load receipts")
          /\ hist' = IF net[i].live THEN [hist EXCEPT !.loading = FALSE] ELSE hist
  /\ UNCHANGED <<backend, session, page, routeId, disp, dash, admin>>

\* handleDelete, after the await: the success notice and fetchReceipts()
DeliverHistDelete(i) ==
  /\ net[i].kind = "histDelete" /\ net[i].phase = "done"
  /\ IF net[i].ok
     THEN /\ toast' = "Receipt deleted successfully"
          /\ lastSubmit' = NoSubmit /\ stmt' = NoStmt
          /\ deleted' = deleted \cup {net[i].arg}
          /\ net' = Append(RemoveAt(net, i),
                           [Req("histList", user, 0, net[i].arg, <<>>)
                              EXCEPT !.live = net[i].live])
     ELSE /\ Notice("Failed to delete receipt")
          /\ net' = RemoveAt(net, i)
  /\ UNCHANGED <<backend, session, page, routeId, hist, disp, dash, admin>>

\* ------------------------------------------------------ ReceiptDisplay
\* useEffect(() => { fetchReceipt(); }, [id]): on mount and when the id changes
OpenReceipt(id) ==
  /\ IF page = "receipt"
     THEN /\ id # routeId
          /\ Len(net) < MaxInFlight
          /\ net' = Append(net, Req("dispGet", user, id, 0, <<>>))
          /\ UNCHANGED disp
     ELSE /\ Settled
          /\ net' = Append(Unmount(net), Req("dispGet", user, id, 0, <<>>))
          /\ disp' = DispInit
  /\ page' = "receipt"
  /\ routeId' = id
  /\ hist' = HistInit /\ dash' = DashInit /\ adm' = AdmInit /\ admU' = AdmUInit
  /\ Quiet
  /\ UNCHANGED <<backend, session>>

\* a fetchReceipt whose catch branch only ends the loading state
DeliverDispGetStay(i) ==
  /\ net[i].kind = "dispGet" /\ net[i].phase = "done"
  /\ disp' = IF ~net[i].live THEN disp
             ELSE IF net[i].ok THEN [receipt |-> net[i].rows, loading |-> FALSE]
             ELSE [disp EXCEPT !.loading = FALSE]
  /\ net' = RemoveAt(net, i)
  /\ Quiet
  /\ UNCHANGED <<backend, session, page, routeId, hist, dash, admin>>

\* fetchReceipt, after the await
DeliverDispGet(i) ==
  /\ net[i].kind = "dispGet" /\ net[i].phase = "done"
  /\ IF net[i].ok
     THEN /\ disp' = IF net[i].live
                     THEN [receipt |-> net[i].rows, loading |-> FALSE]
                     ELSE disp
          /\ net' = RemoveAt(net, i)
          /\ Quiet
          /\ UNCHANGED <<page, hist, dash, admin>>
     ELSE /\ Notice("Failed to load receipt")
          /\ page' = "dashboard"
          /\ net' = NavDashboard(RemoveAt(net, i), user)
          /\ dash' = IF page = "dashboard" THEN dash ELSE DashInit
          /\ hist' = HistInit /\ adm' = AdmInit /\ admU' = AdmUInit
          /\ disp' = IF net[i].live THEN [disp EXCEPT !.loading = FALSE] ELSE disp
  /\ UNCHANGED <<backend, session, routeId>>

\* --------------------------------------------------------- ReceiptForm
Item(q, p) == [name_len |-> 8, quantity |-> q, price |-> p]

FormInput(branch, date, items, rate) ==
  [name_len |-> 5, mobile_len |-> MobileDigits, mobile_digits |-> TRUE,
   address_len |-> 12, branch |-> branch, receipt_date |-> date, items |-> items,
   tax_rate |-> rate]

\* the record the form hands to the persistence gateway
NewRow(owner, input) ==
  LET t == ComputeTotals(input.items, input.tax_rate)
  IN  [user_id |-> owner, branch |-> input.branch, receipt_date |-> input.receipt_date,
       items |-> input.items, subtotal |-> t.subtotal, tax_amount |-> t.tax,
       total_amount |-> t.total]

InsertsPending ==
  Cardinality({i \in DOMAIN net : net[i].kind = "formInsert" /\ net[i].phase = "sent"})

OpenForm ==
  /\ page # "form"
  /\ Settled
  /\ page' = "form"
  /\ net' = Unmount(net)
  /\ hist' = HistInit /\ disp' = DispInit /\ dash' = DashInit
  /\ adm' = AdmInit /\ admU' = AdmUInit
  /\ Quiet
  /\ UNCHANGED <<backend, session, routeId>>

\* submit: validation, then the signed-in check, then computation and the insert
SubmitReceipt(input) ==
  /\ page = "form"
  /\ lastSubmit' = [submitted |-> TRUE, input |-> input]
  /\ stmt' = NoStmt /\ deleted' = deleted
  /\ IF Validate(input) # "ok"
     THEN /\ toast' = Validate(input)
          /\ UNCHANGED <<net, page>>
     ELSE IF user = NoUser
     THEN /\ page' = "auth"
          /\ net' = Unmount(net)
          /\ toast' = ""
     ELSE /\ Len(net) < MaxInFlight
          /\ Cardinality(usedIds) + InsertsPending < MaxReceipts
          /\ net' = Append(net, Req("formInsert", user, 0, 0, <<NewRow(user, input)>>))
          /\ toast' = ""
          /\ UNCHANGED page
  /\ UNCHANGED <<backend, session, routeId, hist, disp, dash, admin>>

\* after the insert: the receipt view of the new row, or the failure notice
DeliverFormInsert(i) ==
  /\ net[i].kind = "formInsert" /\ net[i].phase = "done"
  /\ IF net[i].ok
     THEN /\ Notice("Receipt created successfully")
          /\ page' = "receipt"
          /\ routeId' = net[i].rows[1].id
          /\ hist' = HistInit /\ disp' = DispInit /\ dash' = DashInit
          /\ adm' = AdmInit /\ admU' = AdmUInit
          /\ net' = Append(Unmount(RemoveAt(net, i)),
                           Req("dispGet", user, net[i].rows[1].id, 0, <<>>))
     ELSE /\ Notice("Failed to create receipt")
          /\ net' = RemoveAt(net, i)
          /\ UNCHANGED <<page, routeId, hist, disp, dash, admin>>
  /\ UNCHANGED <<backend, session>>

\* ---------------------------------------------------------------- Admin
\* useEffect(() => { checkAdminAndFetchData(); }, []) on mount of /admin
OpenAdmin ==
  /\ page # "admin"
  /\ Settled
  /\ page' = "admin"
  /\ net' = <<ReqUser("admGetUser", user, NoUser, TRUE)>>
  /\ hist' = HistInit /\ disp' = DispInit /\ dash' = DashInit
  /\ adm' = AdmInit /\ admU' = AdmUInit
  /\ Quiet
  /\ UNCHANGED <<backend, session, routeId>>

\* finally { setLoading(false) } once fetchUsers() and fetchTemplates() are through
AdmJoin(a) ==
  IF a.usersDone /\ a.templatesDone THEN [a EXCEPT !.loading = FALSE] ELSE a

\* a checkAdminAndFetchData that goes on to the role query whoever the user is
DeliverAdmGetUserOn(i) ==
  /\ net[i].kind = "admGetUser" /\ net[i].phase = "done"
  /\ net' = Append(RemoveAt(net, i), ReqUser("admRole", user, user, net[i].live))
  /\ Quiet
  /\ UNCHANGED <<backend, session, page, routeId, hist, disp, dash, admin>>

\* checkAdminAndFetchData, after getUser(): if (!user) { navigate("/auth"); return; }
DeliverAdmGetUser(i) ==
  /\ net[i].kind = "admGetUser" /\ net[i].phase = "done"
  /\ IF net[i].rows = <<>>
     THEN /\ page' = "auth"
          /\ net' = Unmount(RemoveAt(net, i))
          /\ adm' = IF net[i].live THEN [adm EXCEPT !.loading = FALSE] ELSE adm
     ELSE /\ net' = Append(RemoveAt(net, i),
                           ReqUser("admRole", user, net[i].rows[1].id, net[i].live))
          /\ UNCHANGED <<page, adm>>
  /\ Quiet
  /\ UNCHANGED <<backend, session, routeId, hist, disp, dash, admU>>

\* a role check that lets everybody through
DeliverAdmRoleOpen(i) ==
  /\ net[i].kind = "admRole" /\ net[i].phase = "done"
  /\ Quiet
  /\ adm' = IF net[i].live THEN [adm EXCEPT !.isAdmin = TRUE] ELSE adm
  /\ net' = RemoveAt(net, i)
              \o <<ReqUser("admProfiles", user, NoUser, net[i].live),
                   ReqUser("admTemplates", user, NoUser, net[i].live)>>
  /\ UNCHANGED <<backend, session, page, routeId, hist, disp, dash, admU>>

\* after the role query: access denied, or setIsAdmin(true) and the two fetches
DeliverAdmRole(i) ==
  /\ net[i].kind = "admRole" /\ net[i].phase = "done"
  /\ IF net[i].rows = <<>>
     THEN /\ Notice("Access denied - Admin only")
          /\ page' = "dashboard"
          /\ net' = NavDashboard(RemoveAt(net, i), user)
          /\ dash' = DashInit
          /\ adm' = IF net[i].live THEN [adm EXCEPT !.loading = FALSE] ELSE adm
     ELSE /\ Quiet
          /\ adm' = IF net[i].live THEN [adm EXCEPT !.isAdmin = TRUE] ELSE adm
          /\ net' = RemoveAt(net, i)
                      \o <<ReqUser("admProfiles", user, NoUser, net[i].live),
                           ReqUser("admTemplates", user, NoUser, net[i].live)>>
          /\ UNCHANGED <<page, dash>>
  /\ UNCHANGED <<backend, session, routeId, hist, disp, admU>>

\* fetchUsers, after the profiles query: one count query per profile, all at once
DeliverAdmProfiles(i) ==
  /\ net[i].kind = "admProfiles" /\ net[i].phase = "done"
  /\ IF net[i].ok /\ net[i].rows # <<>>
     THEN /\ adm' = [adm EXCEPT !.pending =
                       [k \in DOMAIN net[i].rows |->
                          [id |-> net[i].rows[k].id, email |-> net[i].rows[k].email,
                           receipt_count |-> 0, resolved |-> FALSE]]]
          /\ net' = RemoveAt(net, i)
                      \o [k \in DOMAIN net[i].rows |->
                            ReqUser("admCount", user, net[i].rows[k].id, net[i].live)]
     ELSE /\ adm' = AdmJoin([adm EXCEPT !.usersDone = TRUE])
          /\ net' = RemoveAt(net, i)
  /\ Quiet
  /\ UNCHANGED <<backend, session, page, routeId, hist, disp, dash, admU>>

PendingIndex(who) == CHOOSE k \in DOMAIN adm.pending : adm.pending[k].id = who

\* profiles.map(async ...), after the count query: receipt_count: count || 0
DeliverAdmCount(i) ==
  /\ net[i].kind = "admCount" /\ net[i].phase = "done"
  /\ adm' = [adm EXCEPT !.pending[PendingIndex(net[i].who)].receipt_count =
               IF net[i].ok THEN net[i].rows[1].count ELSE 0]
  /\ net' = Append(RemoveAt(net, i),
                   ReqUser("admUserRole", user, net[i].who, net[i].live))
  /\ Quiet
  /\ UNCHANGED <<backend, session, page, routeId, hist, disp, dash, admU>>

\* the entry of usersWithDetails: receipt_count: count || 0, banned_until: null
UserEntry(p) ==
  [id |-> p.id, email |-> p.email, receipt_count |-> p.receipt_count, banned |-> FALSE]

\* profiles.map(async ...), after the user_roles query; setUsers once all are through
DeliverAdmUserRole(i) ==
  /\ net[i].kind = "admUserRole" /\ net[i].phase = "done"
  /\ LET pend == [adm.pending EXCEPT ![PendingIndex(net[i].who)].resolved = TRUE]
     IN  adm' = IF \A k \in DOMAIN pend : pend[k].resolved
                THEN AdmJoin([adm EXCEPT !.pending = pend, !.usersDone = TRUE,
                                         !.users = IF net[i].live
                                                   THEN Project(pend, UserEntry)
                                                   ELSE @])
                ELSE [adm EXCEPT !.pending = pend]
  /\ net' = RemoveAt(net, i)
  /\ Quiet
  /\ UNCHANGED <<backend, session, page, routeId, hist, disp, dash, admU>>

\* fetchTemplates, after the await: if (data) setTemplates(data)
DeliverAdmTemplates(i) ==
  /\ net[i].kind = "admTemplates" /\ net[i].phase = "done"
  /\ adm' = AdmJoin([adm EXCEPT !.templatesDone = TRUE,
                                !.templates = IF net[i].ok /\ net[i].live
                                              THEN net[i].rows ELSE @])
  /\ net' = RemoveAt(net, i)
  /\ Quiet
  /\ UNCHANGED <<backend, session, page, routeId, hist, disp, dash, admU>>

\* the panel is rendered: if (loading) spinner; if (!isAdmin) return null
AdminShown == page = "admin" /\ ~adm.loading /\ adm.isAdmin

\* a row of users.map(...)
Listed(u) == \E k \in DOMAIN adm.users : adm.users[k].id = u

\* handleEditUser(user): the edit dialog of that row opens
HandleEditUser(u) ==
  /\ AdminShown /\ Listed(u)
  /\ ~(adm.editDialogOpen /\ adm.editingUser = u)
  /\ adm' = [adm EXCEPT !.editingUser = u, !.editDialogOpen = TRUE]
  /\ Quiet
  /\ UNCHANGED <<backend, session, page, routeId, hist, disp, dash, admU, net>>

\* onOpenChange(false) of the edit dialog
CloseEditDialog ==
  /\ AdminShown /\ adm.editDialogOpen
  /\ adm' = [adm EXCEPT !.editDialogOpen = FALSE]
  /\ Quiet
  /\ UNCHANGED <<backend, session, page, routeId, hist, disp, dash, admU, net>>

\* an update that sends the new credentials to the backend
HandleUpdateUserSend(emailChanged, passwordGiven) ==
  /\ AdminShown /\ adm.editDialogOpen /\ Listed(adm.editingUser)
  /\ Len(net) < MaxInFlight
  /\ net' = Append(net, ReqUser("admUserRole", user, adm.editingUser, TRUE))
  /\ Notice("User management features require backend API")
  /\ UNCHANGED <<backend, client>>

\* handleUpdateUser, from the button of the open edit dialog; the typed e-mail
\* differs from the user's or not, a password of six characters or more is typed or not
HandleUpdateUser(emailChanged, passwordGiven) ==
  /\ AdminShown /\ adm.editDialogOpen /\ Listed(adm.editingUser)
  /\ IF adm.editingUser = NoUser THEN Quiet
     ELSE IF emailChanged
     THEN Notice("Email updates require contacting system administrator")
     ELSE IF passwordGiven
     THEN Notice("Password updates require contacting system administrator")
     ELSE Notice("User management features require backend API")
  /\ UNCHANGED <<backend, client, net>>

\* handleDeleteUser(userId)
HandleDeleteUser(u) ==
  /\ AdminShown /\ Listed(u)
  /\ Notice("User deletion requires backend API access")
  /\ UNCHANGED <<backend, client, net>>

\* handleBlockUser(userId): the button of a user that is not blocked
HandleBlockUser(u) ==
  /\ AdminShown
  /\ \E k \in DOMAIN adm.users : adm.users[k].id = u /\ ~adm.users[k].banned
  /\ Notice("User blocking requires backend API access")
  /\ UNCHANGED <<backend, client, net>>

\* handleUnblockUser(userId): the button of a blocked user. fetchUsers sets
\* banned_until: null on every entry, so the button is never rendered and
\* Next has no step of it.
HandleUnblockUser(u) ==
  /\ AdminShown
  /\ \E k \in DOMAIN adm.users : adm.users[k].id = u /\ adm.users[k].banned
  /\ Notice("User unblocking requires backend API access")
  /\ UNCHANGED <<backend, client, net>>

\* handleDirectLogin(userId, userEmail)
HandleDirectLogin(u) ==
  /\ AdminShown /\ Listed(u)
  /\ Notice("Direct login requires backend API access")
  /\ UNCHANGED <<backend, client, net>>

\* ----------------------------------------------------- Admin: templates
\* a templateData that sends the fields as they were entered
TemplateDataAsEntered(newTemplate) == newTemplate

\* templateData: newTemplate.x || default, for each colour and the font
TemplateData(newTemplate) ==
  [f \in DOMAIN newTemplate |->
     IF f # "name" /\ newTemplate[f] = "" THEN TemplateDefaults[f] ELSE newTemplate[f]]

\* handleCreateTemplate with the form holding newTemplate
HandleCreateTemplate(newTemplate) ==
  /\ AdminShown
  /\ IF newTemplate.name = ""
     THEN /\ Notice("Template name is required")
          /\ UNCHANGED net
     ELSE /\ Len(net) < MaxInFlight
          /\ net' = Append(net, Req("tmplInsert", user, 0, 0, <<TemplateData(newTemplate)>>))
          /\ Quiet
  /\ UNCHANGED <<backend, client>>

\* handleCreateTemplate, after the await: the notice and fetchTemplates()
DeliverTemplateCreate(i) ==
  /\ net[i].kind = "tmplInsert" /\ net[i].phase = "done"
  /\ IF net[i].ok
     THEN /\ Notice("Template created successfully")
          /\ net' = Append(RemoveAt(net, i),
                           ReqUser("admTemplates", user, NoUser, net[i].live))
     ELSE /\ Notice("error.message")
          /\ net' = RemoveAt(net, i)
  /\ UNCHANGED <<backend, client>>

\* a delete button that every template shown has
HandleDeleteTemplateAny(id) ==
  /\ AdminShown
  /\ \E k \in DOMAIN adm.templates : adm.templates[k].id = id
  /\ Len(net) < MaxInFlight
  /\ net' = Append(net, Req("tmplDelete", user, id, 0, <<>>))
  /\ Quiet
  /\ UNCHANGED <<backend, client>>

\* handleDeleteTemplate(template.id), on the button rendered for the templates
\* shown with !template.is_default
HandleDeleteTemplate(id) ==
  /\ AdminShown
  /\ \E k \in DOMAIN adm.templates :
       adm.templates[k].id = id /\ ~adm.templates[k].is_default
  /\ Len(net) < MaxInFlight
  /\ net' = Append(net, Req("tmplDelete", user, id, 0, <<>>))
  /\ Quiet
  /\ UNCHANGED <<backend, client>>

\* handleDeleteTemplate, after the await: the notice and fetchTemplates()
DeliverTemplateDelete(i) ==
  /\ net[i].kind = "tmplDelete" /\ net[i].phase = "done"
  /\ IF net[i].ok
     THEN /\ Notice("Template deleted successfully")
          /\ net' = Append(RemoveAt(net, i),
                           ReqUser("admTemplates", user, NoUser, net[i].live))
     ELSE /\ Notice("error.message")
          /\ net' = RemoveAt(net, i)
  /\ UNCHANGED <<backend, client>>

\* ---------------------------------------------------- AdminUserReceipts
\* useEffect(() => { checkAdminAndFetchReceipts(); }, [userId])
OpenAdminUser(u) ==
  /\ Settled
  /\ page # "adminUser" \/ u # routeUser
  /\ page' = "adminUser"
  /\ routeUser' = u
  /\ net' = <<ReqUser("admUGetUser", user, NoUser, TRUE)>>
  /\ admU' = IF page = "adminUser" THEN admU ELSE AdmUInit
  /\ hist' = HistInit /\ disp' = DispInit /\ dash' = DashInit /\ adm' = AdmInit
  /\ Quiet
  /\ UNCHANGED <<backend, user, prof, routeId>>

\* checkAdminAndFetchReceipts, after getUser()
DeliverAdmUGetUser(i) ==
  /\ net[i].kind = "admUGetUser" /\ net[i].phase = "done"
  /\ IF net[i].rows = <<>>
     THEN /\ page' = "auth"
          /\ net' = Unmount(RemoveAt(net, i))
          /\ admU' = IF net[i].live THEN [admU EXCEPT !.loading = FALSE] ELSE admU
     ELSE /\ net' = Append(RemoveAt(net, i),
                           ReqUser("admURole", user, net[i].rows[1].id, net[i].live))
          /\ UNCHANGED <<page, admU>>
  /\ Quiet
  /\ UNCHANGED <<backend, session, routeId, hist, disp, dash, adm>>

\* after the role query
DeliverAdmURole(i) ==
  /\ net[i].kind = "admURole" /\ net[i].phase = "done"
  /\ IF net[i].rows = <<>>
     THEN /\ Notice("Access denied - Admin only")
          /\ page' = "dashboard"
          /\ net' = NavDashboard(RemoveAt(net, i), user)
          /\ dash' = DashInit
          /\ admU' = IF net[i].live THEN [admU EXCEPT !.loading = FALSE] ELSE admU
     ELSE /\ Quiet
          /\ net' = Append(RemoveAt(net, i),
                           ReqUser("admUProfile", user, routeUser, net[i].live))
          /\ UNCHANGED <<page, dash, admU>>
  /\ UNCHANGED <<backend, session, routeId, hist, disp, adm>>

\* after the profile query: setUserName(profile.full_name || "User")
DeliverAdmUProfile(i) ==
  /\ net[i].kind = "admUProfile" /\ net[i].phase = "done"
  /\ admU' = IF net[i].live /\ net[i].rows # <<>>
             THEN [admU EXCEPT !.userName = net[i].rows[1].full_name]
             ELSE admU
  /\ net' = Append(RemoveAt(net, i),
                   ReqUser("admUReceipts", user, net[i].who, net[i].live))
  /\ Quiet
  /\ UNCHANGED <<backend, session, page, routeId, hist, disp, dash, adm>>

\* the columns the per-user list selects
UserReceiptColumns(r) ==
  [id |-> r.id, total_amount |-> r.total_amount, branch |-> r.branch,
   receipt_date |-> r.receipt_date]

\* after the receipts query: if (receiptsData) setReceipts(receiptsData); finally
DeliverAdmUReceipts(i) ==
  /\ net[i].kind = "admUReceipts" /\ net[i].phase = "done"
  /\ admU' = IF net[i].live
             THEN [admU EXCEPT !.loading = FALSE,
                               !.receipts = IF net[i].ok
                                            THEN Project(net[i].rows, UserReceiptColumns)
                                            ELSE @]
             ELSE admU
  /\ net' = RemoveAt(net, i)
  /\ Quiet
  /\ UNCHANGED <<backend, session, page, routeId, hist, disp, dash, adm>>

\* -------------------------------------------------------------- Profile
\* useEffect(() => { fetchProfile(); fetchReceiptCount(); checkAdminStatus(); }, [])
\* on mount of /profile: each of the three runs up to its first await
ProfileMount(actor) ==
  <<ReqUser("profGetUser", actor, NoUser, TRUE),
    ReqUser("profCount", actor, NoUser, TRUE),
    ReqUser("profAdmGetUser", actor, NoUser, TRUE)>>

OpenProfile ==
  /\ page # "profile"
  /\ user # NoUser
  /\ Settled
  /\ page' = "profile"
  /\ prof' = ProfInit
  /\ net' = Unmount(net) \o ProfileMount(user)
  /\ hist' = HistInit /\ disp' = DispInit /\ dash' = DashInit
  /\ adm' = AdmInit /\ admU' = AdmUInit
  /\ Quiet
  /\ UNCHANGED <<backend, user, routeUser, routeId>>

\* fetchProfile, after getUser(): setUserId, setEmail and the profile query
DeliverProfGetUser(i) ==
  /\ net[i].kind = "profGetUser" /\ net[i].phase = "done"
  /\ IF net[i].rows = <<>>
     THEN /\ net' = RemoveAt(net, i)
          /\ UNCHANGED prof
     ELSE /\ prof' = IF net[i].live
                     THEN [prof EXCEPT !.userId = net[i].rows[1].id,
                                       !.email = net[i].rows[1].email]
                     ELSE prof
          /\ net' = Append(RemoveAt(net, i),
                           ReqUser("profProfile", user, net[i].rows[1].id, net[i].live))
  /\ Quiet
  /\ UNCHANGED <<backend, user, routeUser, page, routeId, hist, disp, dash, admin>>

\* fetchProfile, after the profile query: if (profile) setFullName(...)
DeliverProfProfile(i) ==
  /\ net[i].kind = "profProfile" /\ net[i].phase = "done"
  /\ prof' = IF net[i].live /\ net[i].rows # <<>>
             THEN [prof EXCEPT !.fullName = net[i].rows[1].full_name]
             ELSE prof
  /\ net' = RemoveAt(net, i)
  /\ Quiet
  /\ UNCHANGED <<backend, user, routeUser, page, routeId, hist, disp, dash, admin>>

\* fetchReceiptCount, after the await: setReceiptCount(count || 0)
DeliverProfCount(i) ==
  /\ net[i].kind = "profCount" /\ net[i].phase = "done"
  /\ prof' = IF net[i].live
             THEN [prof EXCEPT !.receiptCount = IF net[i].ok THEN net[i].rows[1].count
                                                ELSE 0]
             ELSE prof
  /\ net' = RemoveAt(net, i)
  /\ Quiet
  /\ UNCHANGED <<backend, user, routeUser, page, routeId, hist, disp, dash, admin>>

\* checkAdminStatus, after getUser(): if (user) the role query
DeliverProfAdmGetUser(i) ==
  /\ net[i].kind = "profAdmGetUser" /\ net[i].phase = "done"
  /\ net' = IF net[i].rows = <<>> THEN RemoveAt(net, i)
            ELSE Append(RemoveAt(net, i),
                        ReqUser("profRole", user, net[i].rows[1].id, net[i].live))
  /\ Quiet
  /\ UNCHANGED <<backend, client>>

\* checkAdminStatus, after the role query: setIsAdmin(!!data)
DeliverProfRole(i) ==
  /\ net[i].kind = "profRole" /\ net[i].phase = "done"
  /\ prof' = IF net[i].live THEN [prof EXCEPT !.isAdmin = net[i].rows # <<>>] ELSE prof
  /\ net' = RemoveAt(net, i)
  /\ Quiet
  /\ UNCHANGED <<backend, user, routeUser, page, routeId, hist, disp, dash, admin>>

\* the request of a save of `name` under the key `key`
SaveRequest(key, name) ==
  [ReqUser("profSave", user, NoUser, TRUE)
     EXCEPT !.rows = <<[id |-> key, full_name |-> name]>>]

\* a save that starts the refetch of the profile without awaiting the upsert
HandleSaveProfileRefetch(name) ==
  /\ page = "profile" /\ ~prof.loading
  /\ prof' = [prof EXCEPT !.fullName = name, !.loading = TRUE]
  /\ net' = net \o <<SaveRequest(prof.userId, name),
                     ReqUser("profProfile", user, prof.userId, TRUE)>>
  /\ Quiet
  /\ UNCHANGED <<backend, user, routeUser, page, routeId, hist, disp, dash, admin>>

\* handleSaveProfile with `name` in the name field: setLoading(true) and the
\* upsert of { id: userId, full_name: fullName, ... }
HandleSaveProfile(name) ==
  /\ page = "profile" /\ ~prof.loading
  /\ prof' = [prof EXCEPT !.fullName = name, !.loading = TRUE]
  /\ net' = Append(net, SaveRequest(prof.userId, name))
  /\ Quiet
  /\ UNCHANGED <<backend, user, routeUser, page, routeId, hist, disp, dash, admin>>

\* handleSaveProfile, after the await: the notice, and finally setLoading(false)
DeliverProfSave(i) ==
  /\ net[i].kind = "profSave" /\ net[i].phase = "done"
  /\ Notice(IF net[i].ok THEN "Profile updated successfully" ELSE "error.message")
  /\ prof' = IF net[i].live THEN [prof EXCEPT !.loading = FALSE] ELSE prof
  /\ net' = RemoveAt(net, i)
  /\ UNCHANGED <<backend, user, routeUser, page, routeId, hist, disp, dash, admin>>

\* handleImageUpload with a file chosen at time `stamp`: setLoading(true) and the
\* upload to `${userId}/${Date.now()}.${fileExt}` in the bucket profiles
HandleImageUpload(stamp) ==
  /\ page = "profile"
  /\ Cardinality({i \in DOMAIN net : net[i].kind \in {"profUpload", "profSave"}})
       < MaxUploads
  /\ prof' = [prof EXCEPT !.loading = TRUE]
  /\ net' = Append(net, [ReqUser("profUpload", user, NoUser, TRUE)
                           EXCEPT !.rows = <<[bucket_id |-> "profiles",
                                              folder |-> prof.userId, stamp |-> stamp]>>])
  /\ Quiet
  /\ UNCHANGED <<backend, user, routeUser, page, routeId, hist, disp, dash, admin>>

\* handleImageUpload, after the await: setProfileImageUrl(publicUrl) and the
\* notice, or the error notice; finally setLoading(false)
DeliverProfUpload(i) ==
  /\ net[i].kind = "profUpload" /\ net[i].phase = "done"
  /\ Notice(IF net[i].ok THEN "Image uploaded successfully" ELSE "error.message")
  /\ prof' = IF net[i].live
             THEN [prof EXCEPT !.loading = FALSE,
                               !.profileImageUrl = IF net[i].ok THEN net[i].rows ELSE @]
             ELSE prof
  /\ net' = RemoveAt(net, i)
  /\ UNCHANGED <<backend, user, routeUser, page, routeId, hist, disp, dash, admin>>

\* ------------------------------------------------------------- backend
Done(i, ok, rows) == [net EXCEPT ![i].phase = "done", ![i].ok = ok, ![i].rows = rows]

\* the sequences that list every element of S once
RECURSIVE Orderings(_)
Orderings(S) ==
  IF S = {} THEN {<<>>}
  ELSE UNION {{<<x>> \o p : p \in Orderings(S \ {x})} : x \in S}

\* a remote call that fails: nothing is changed, the client gets an error
ServeError(i) ==
  /\ net[i].phase = "sent"
  /\ net' = Done(i, FALSE, <<>>)
  /\ Quiet
  /\ UNCHANGED <<backend, client>>

\* SELECT on receipts under the row level security policy
ServeSelect(i) ==
  /\ net[i].phase = "sent"
  /\ \/ /\ net[i].kind = "histList"
        /\ net' = Done(i, TRUE, OrderByCreatedAtDesc(Visible(net[i].actor)))
     \/ /\ net[i].kind = "dispGet"
        \* .eq("id", id).single(): an error unless exactly one row is returned
        /\ LET hit == {r \in Visible(net[i].actor) : r.id = net[i].arg}
           IN  net' = IF Cardinality(hit) = 1
                      THEN Done(i, TRUE, <<CHOOSE r \in hit : TRUE>>)
                      ELSE Done(i, FALSE, <<>>)
     \/ /\ net[i].kind = "dashList"
        \* no ORDER BY: the rows come in any order
        /\ \E rows \in Orderings(Visible(net[i].actor)) : net' = Done(i, TRUE, rows)
     \/ /\ net[i].kind = "admUReceipts"
        \* .eq("user_id", userId).order("receipt_date", { ascending: false })
        /\ \E rows \in Orderings({r \in Visible(net[i].actor) : r.user_id = net[i].who}) :
             /\ \A a, b \in DOMAIN rows :
                  a < b => DateKey(rows[a].receipt_date) >= DateKey(rows[b].receipt_date)
             /\ net' = Done(i, TRUE, rows)
     \/ /\ net[i].kind = "profCount"
        \* .select("*", { count: "exact", head: true })
        /\ net' = Done(i, TRUE, <<[count |-> Cardinality(Visible(net[i].actor))]>>)
     \/ /\ net[i].kind = "admCount"
        \* .select("*", { count: "exact", head: true }).eq("user_id", profile.id)
        /\ net' = Done(i, TRUE,
                       <<[count |-> Cardinality({r \in Visible(net[i].actor) :
                                                   r.user_id = net[i].who})]>>)
  /\ Quiet
  /\ UNCHANGED <<backend, client>>

\* auth.getUser(): the user of the session the request carries, or none
ServeGetUser(i) ==
  /\ net[i].phase = "sent"
  /\ net[i].kind \in {"admGetUser", "admUGetUser", "profGetUser", "profAdmGetUser"}
  /\ net' = Done(i, TRUE, IF net[i].actor = NoUser THEN <<>>
                          ELSE <<[id |-> net[i].actor, email |-> EmailOf(net[i].actor)]>>)
  /\ Quiet
  /\ UNCHANGED <<backend, client>>

\* SELECT on user_roles, profiles and receipt_templates
ServeAccounts(i) ==
  /\ net[i].phase = "sent"
  /\ \/ /\ net[i].kind \in {"admRole", "admURole", "profRole"}
        \* .eq("user_id", user.id).eq("role", "admin").maybeSingle()
        /\ net' = Done(i, TRUE,
                       IF net[i].who \in Users /\ net[i].actor = net[i].who
                          /\ \E r \in user_roles :
                               r.user_id = net[i].who /\ r.role = "admin"
                       THEN <<[role |-> "admin"]>> ELSE <<>>)
     \/ /\ net[i].kind = "admUserRole"
        \* .select("user_id").eq("user_id", profile.id).single()
        /\ net' = Done(i, TRUE, <<[user_id |-> net[i].who]>>)
     \/ /\ net[i].kind = "admProfiles"
        /\ \E rows \in Orderings(profiles) : net' = Done(i, TRUE, rows)
     \/ /\ net[i].kind \in {"admUProfile", "profProfile"}
        \* .eq("id", userId).maybeSingle()
        /\ \E rows \in Orderings({q \in profiles : q.id = net[i].who}) :
             net' = Done(i, TRUE, rows)
     \/ /\ net[i].kind = "admTemplates"
        /\ \E rows \in Orderings(receipt_templates) : net' = Done(i, TRUE, rows)
  /\ Quiet
  /\ UNCHANGED <<backend, client>>

\* USING / WITH CHECK (bucket_id = 'profiles' AND
\*   auth.uid()::text = (storage.foldername(name))[1]), FOR INSERT, UPDATE, DELETE
StorageWritePolicy(uid, obj) ==
  obj.bucket_id = "profiles" /\ uid # NoUser /\ uid = obj.folder

\* USING (bucket_id = 'profiles'), FOR SELECT
StorageSelectPolicy(uid, obj) == obj.bucket_id = "profiles"

\* upload(fileName, file, { upsert: true }): the object is created, or replaced
\* if the name exists, where the policies let the user write it
ServeUpload(i) ==
  /\ net[i].phase = "sent" /\ net[i].kind = "profUpload"
  /\ LET obj == net[i].rows[1] @@ [owner |-> net[i].actor]
         old == {o \in objects : o.folder = obj.folder /\ o.stamp = obj.stamp}
     IN  IF StorageWritePolicy(net[i].actor, obj)
            /\ \A o \in old : StorageWritePolicy(net[i].actor, o)
         THEN /\ objects' = (objects \ old) \cup {obj}
              /\ net' = Done(i, TRUE, net[i].rows)
         ELSE /\ UNCHANGED objects
              /\ net' = Done(i, FALSE, <<>>)
  /\ Quiet
  /\ UNCHANGED <<receipts, usedIds, clock, accounts, client>>

\* upsert on profiles: "" is no uuid, and a user may write only the row whose id
\* is the identity of the session; the columns not given keep their values
ServeUpsert(i) ==
  /\ net[i].phase = "sent" /\ net[i].kind = "profSave"
  /\ LET row == net[i].rows[1]
         old == {q \in profiles : q.id = row.id}
     IN  IF row.id = "" \/ row.id # net[i].actor
         THEN /\ net' = Done(i, FALSE, <<>>)
              /\ UNCHANGED profiles
         ELSE /\ profiles' = (profiles \ old)
                               \cup {[id |-> row.id, full_name |-> row.full_name,
                                      email |-> IF old = {} THEN ""
                                                ELSE (CHOOSE q \in old : TRUE).email]}
              /\ net' = Done(i, TRUE, <<>>)
  /\ Quiet
  /\ UNCHANGED <<receipts, usedIds, clock, objects, auth_users, user_roles, usedRoleIds,
                 receipt_templates, usedTemplateIds, client>>

\* INSERT and DELETE ... WHERE id = arg on receipt_templates: a new row gets a
\* fresh id and is not flagged as default; no row deleted is no error
ServeTemplates(i) ==
  /\ net[i].phase = "sent"
  /\ \/ /\ net[i].kind = "tmplInsert"
        /\ Cardinality(usedTemplateIds) < MaxTemplateIds
        /\ LET id == Cardinality(usedTemplateIds) + 1
           IN  /\ receipt_templates' =
                    receipt_templates
                      \cup {[id |-> id, is_default |-> FALSE] @@ net[i].rows[1]}
               /\ usedTemplateIds' = usedTemplateIds \cup {id}
     \/ /\ net[i].kind = "tmplDelete"
        /\ receipt_templates' = {t \in receipt_templates : t.id # net[i].arg}
        /\ UNCHANGED usedTemplateIds
  /\ net' = Done(i, TRUE, <<>>)
  /\ Quiet
  /\ UNCHANGED <<receipts, usedIds, clock, objects, auth_users, user_roles, usedRoleIds, profiles,
                 client>>

\* INSERT: the id and created_at defaults, the DECIMAL(10,2) columns, the policy
StoredRow(new, id, now) ==
  [id |-> id, user_id |-> new.user_id, branch |-> new.branch,
   receipt_date |-> new.receipt_date, items |-> new.items,
   subtotal |-> ToDecimal2(new.subtotal), tax_amount |-> ToDecimal2(new.tax_amount),
   total_amount |-> ToDecimal2(new.total_amount), created_at |-> now, updated_at |-> now]

\* gen_random_uuid(): an id never handed out before
FreshId == Cardinality(usedIds) + 1

ServeInsert(i) ==
  /\ net[i].phase = "sent" /\ net[i].kind = "formInsert"
  /\ LET row == StoredRow(net[i].rows[1], FreshId, clock + 1)
     IN  IF InsertPolicy(net[i].actor, row)
         THEN /\ receipts' = receipts \cup {row}
              /\ usedIds' = usedIds \cup {FreshId}
              /\ clock' = clock + 1
              /\ net' = Done(i, TRUE, <<row>>)
         ELSE /\ net' = Done(i, FALSE, <<>>)
              /\ UNCHANGED <<receipts, usedIds, clock>>
  /\ Wrote(net[i].actor, "insert", FreshId)
  /\ UNCHANGED <<accounts, objects, client>>

\* DELETE ... WHERE id = arg, under the policy; no row deleted is no error
ServeDelete(i) ==
  /\ net[i].phase = "sent" /\ net[i].kind = "histDelete"
  /\ receipts' = {r \in receipts : ~(r.id = net[i].arg /\ DeletePolicy(net[i].actor, r))}
  /\ net' = Done(i, TRUE, <<>>)
  /\ Wrote(net[i].actor, "delete", net[i].arg)
  /\ UNCHANGED <<usedIds, clock, objects, accounts, client>>

\* ---------------------------------------------------- other sessions
\* Statements sent on the table interface from outside this client, under the
\* identity of any user. They touch the table only, so they commute with the
\* client's own steps and are taken between the client's exchanges.
UpdateAmounts == {12345}

\* DELETE ... WHERE id = ..., sent on the table interface by another session of u
ApiDelete(u, id) ==
  /\ id \in ReceiptIds
  /\ Settled
  /\ receipts' = {r \in receipts : ~(r.id = id /\ DeletePolicy(u, r))}
  /\ Wrote(u, "delete", id)
  /\ UNCHANGED <<usedIds, clock, objects, accounts, client, net>>

\* UPDATE ... SET total_amount = ... WHERE id = ..., by another session of u; the
\* trigger sets updated_at = NOW()
ApiUpdate(u, id, amount) ==
  /\ id \in ReceiptIds
  /\ Settled
  /\ receipts' = {IF r.id = id /\ UpdatePolicy(u, r)
                  THEN [r EXCEPT !.total_amount = amount, !.updated_at = clock]
                  ELSE r : r \in receipts}
  /\ Wrote(u, "update", id)
  /\ UNCHANGED <<usedIds, clock, objects, accounts, client, net>>

\* UPDATE ... SET user_id = ... WHERE id = ..., by another session of u: the
\* policy is checked on the row as it is and on the row as it would become
ApiUpdateOwner(u, id, to) ==
  /\ id \in ReceiptIds
  /\ Settled
  /\ receipts' = {IF r.id = id /\ UpdatePolicy(u, r)
                     /\ UpdatePolicy(u, [r EXCEPT !.user_id = to])
                  THEN [r EXCEPT !.user_id = to, !.updated_at = clock]
                  ELSE r : r \in receipts}
  /\ Wrote(u, "update", id)
  /\ UNCHANGED <<usedIds, clock, objects, accounts, client, net>>

\* ------------------------------------------------------- specification
Date1 == [y |-> 2025, m |-> 1, d |-> 15]

\* the receipts the sessions of Spec submit
MainInputs ==
  { FormInput("Main", Date1, <<Item(1, 500 * Unit), Item(2, 150 * Unit)>>, 18),
    FormInput("Main", Date1, <<>>, 18) }


Next ==
  \/ \E u \in Users : SignIn(u)
  \/ SignOut
  \/ OpenDashboard
  \/ OpenHistory
  \/ \E id \in Ids, c \in BOOLEAN : HandleDelete(id, c)
  \/ \E id \in Ids : OpenReceipt(id)
  \/ OpenForm
  \/ OpenAdmin
  \/ \E u \in Users : OpenAdminUser(u)
  \/ \E u \in Users : HandleEditUser(u)
  \/ CloseEditDialog
  \/ \E e, w \in BOOLEAN : HandleUpdateUser(e, w)
  \/ \E u \in Users : HandleDeleteUser(u)
  \/ \E u \in Users : HandleBlockUser(u)
  \/ \E u \in Users : HandleDirectLogin(u)
  \/ \E input \in MainInputs : SubmitReceipt(input)
  \/ \E u \in Users, id \in Ids : ApiDelete(u, id)
  \/ \E u \in Users, id \in Ids, a \in UpdateAmounts : ApiUpdate(u, id, a)
  \/ \E u \in Users, id \in Ids : \E to \in Users \ {u} : ApiUpdateOwner(u, id, to)
  \/ \E i \in DOMAIN net : ServeError(i)
  \/ \E i \in DOMAIN net : ServeSelect(i)
  \/ \E i \in DOMAIN net : ServeInsert(i)
  \/ \E i \in DOMAIN net : ServeDelete(i)
  \/ \E i \in DOMAIN net : ServeGetUser(i)
  \/ \E i \in DOMAIN net : ServeAccounts(i)
  \/ \E i \in DOMAIN net : DeliverDashList(i)
  \/ \E i \in DOMAIN net : DeliverHistList(i)
  \/ \E i \in DOMAIN net : DeliverHistDelete(i)
  \/ \E i \in DOMAIN net : DeliverDispGet(i)
  \/ \E i \in DOMAIN net : DeliverFormInsert(i)
  \/ \E i \in DOMAIN net : DeliverAdmGetUser(i)
  \/ \E i \in DOMAIN net : DeliverAdmRole(i)
  \/ \E i \in DOMAIN net : DeliverAdmProfiles(i)
  \/ \E i \in DOMAIN net : DeliverAdmCount(i)
  \/ \E i \in DOMAIN net : DeliverAdmUserRole(i)
  \/ \E i \in DOMAIN net : DeliverAdmTemplates(i)
  \/ \E i \in DOMAIN net : DeliverAdmUGetUser(i)
  \/ \E i \in DOMAIN net : DeliverAdmURole(i)
  \/ \E i \in DOMAIN net : DeliverAdmUProfile(i)
  \/ \E i \in DOMAIN net : DeliverAdmUReceipts(i)

Spec == Init /\ [][Next]_vars

\* ------------------------------------------- specification of the form
Example == FormInput("Main", Date1, <<Item(1, 500 * Unit), Item(2, 150 * Unit)>>, 18)

\* submissions that pass validation: the example, a price with a third decimal,
\* three lines, the largest price and the largest quantity, the ends of the rate
ValidInputs ==
  { Example,
    [Example EXCEPT !.items = <<Item(1, 1004)>>, !.tax_rate = 100],
    [Example EXCEPT !.items = <<Item(3, 20 * Unit), Item(1, 7500), Item(2, 250)>>,
                    !.tax_rate = 10, !.branch = "City"],
    [Example EXCEPT !.items = <<Item(1, MaxPrice * Unit)>>, !.tax_rate = 0],
    [Example EXCEPT !.items = <<Item(MaxQuantity, 1 * Unit)>>, !.tax_rate = MaxTaxRate] }

\* submissions that break one rule each, or several
InvalidInputs ==
  { [Example EXCEPT !.name_len = 0],
    [Example EXCEPT !.name_len = MaxNameLen + 1],
    [Example EXCEPT !.mobile_len = MobileDigits - 1],
    [Example EXCEPT !.mobile_len = MobileDigits + 1],
    [Example EXCEPT !.mobile_digits = FALSE],
    [Example EXCEPT !.address_len = 0],
    [Example EXCEPT !.address_len = MaxAddressLen + 1],
    [Example EXCEPT !.branch = ""],
    [Example EXCEPT !.receipt_date = NoDate],
    [Example EXCEPT !.items = <<>>],
    [Example EXCEPT !.items = <<Item(1, 500 * Unit), Item(0, 150 * Unit)>>],
    [Example EXCEPT !.items = <<Item(MaxQuantity + 1, 1 * Unit)>>],
    [Example EXCEPT !.items = <<Item(1, 0)>>],
    [Example EXCEPT !.items = <<Item(1, MaxPrice * Unit + 1)>>],
    [Example EXCEPT !.items = <<[name_len |-> 0, quantity |-> 1, price |-> Unit]>>],
    [Example EXCEPT !.items = <<[name_len |-> MaxNameLen + 1, quantity |-> 1,
                                 price |-> Unit]>>],
    [Example EXCEPT !.tax_rate = 0 - 1],
    [Example EXCEPT !.tax_rate = MaxTaxRate + 1],
    [Example EXCEPT !.items = <<>>, !.tax_rate = MaxTaxRate + 1, !.name_len = 0] }

FormInputs == ValidInputs \cup InvalidInputs

\* the form is open, with or without a session
InitForm ==
  /\ receipts = {} /\ usedIds = {} /\ clock = 0
  /\ SeededAccounts
  /\ user \in Users \cup {NoUser}
  /\ page = "form"
  /\ routeId = 0 /\ routeUser = NoUser
  /\ hist = HistInit /\ disp = DispInit /\ dash = DashInit
  /\ adm = AdmInit /\ admU = AdmUInit /\ prof = ProfInit
  /\ lastSubmit = NoSubmit /\ toast = "" /\ deleted = {} /\ stmt = NoStmt
  /\ net = <<>>

NextForm ==
  \/ \E input \in FormInputs : SubmitReceipt(input)
  \/ OpenForm
  \/ \E i \in DOMAIN net : ServeError(i)
  \/ \E i \in DOMAIN net : ServeSelect(i)
  \/ \E i \in DOMAIN net : ServeInsert(i)
  \/ \E i \in DOMAIN net : DeliverFormInsert(i)
  \/ \E i \in DOMAIN net : DeliverDispGet(i)
  \/ \E i \in DOMAIN net : DeliverDashList(i)

SpecForm == InitForm /\ [][NextForm]_vars

\* ------------------------------- specification of the range of amounts
\* Amounts counted in whole rupees, which a DECIMAL(10,2) column stores as they
\* are: ten digits, two of them after the point, leave eight before it.
DecimalLimit == 100000000

FitsDecimal(x) == x < DecimalLimit

\* receipts of one line that pass validation, with the price in whole rupees,
\* as far as the products stay within the integers of the checker
WholeInputs ==
  { FormInput("Main", Date1, <<Item(c[1], c[2])>>, c[3]) :
      c \in { d \in {1, 2, 100, 9999, MaxQuantity}
                    \X {1, 9999, 10000, 100000, MaxPrice - 1, MaxPrice}
                    \X {0, 5, 18} :
                d[1] <= (2000000000 \div d[2]) \div (d[3] + 1) } }

\* the submission of such a receipt up to the answer of the database: the row is
\* stored, or the insert fails because an amount does not fit its column
InsertWhole(input) ==
  /\ page = "form" /\ user # NoUser
  /\ Cardinality(usedIds) < MaxReceipts
  /\ Validate([input EXCEPT !.items =
                 [k \in DOMAIN input.items |->
                    [input.items[k] EXCEPT !.price = @ * Unit]]]) = "ok"
  /\ lastSubmit' = [submitted |-> TRUE, input |-> input]
  /\ LET new == NewRow(user, input)
     IN  IF FitsDecimal(new.subtotal) /\ FitsDecimal(new.tax_amount)
            /\ FitsDecimal(new.total_amount)
         THEN /\ receipts' = receipts
                               \cup {new @@ [id |-> FreshId, created_at |-> clock + 1,
                                             updated_at |-> clock + 1]}
              /\ usedIds' = usedIds \cup {FreshId}
              /\ clock' = clock + 1
              /\ toast' = "Receipt created successfully"
              /\ stmt' = [by |-> user, kind |-> "insert", id |-> FreshId]
         ELSE /\ UNCHANGED <<receipts, usedIds, clock>>
              /\ toast' = "Failed to create receipt"
              /\ stmt' = NoStmt
  /\ deleted' = deleted
  /\ UNCHANGED <<accounts, objects, client, net>>

NextRange == \E input \in WholeInputs : InsertWhole(input)

SpecRange == InitForm /\ [][NextRange]_vars

\* -------------------------------------- specification of the dashboard
MaxDashRows == 3
DashBranches == {"Main", "main", "City"}
DashAmounts == {100, 333}

\* a stored receipt of the table the dashboard reads
DashRow(id, owner, amount, branch) ==
  [id |-> id, user_id |-> owner, branch |-> branch,
   receipt_date |-> [y |-> 2025, m |-> 1 + (id % 2), d |-> 15], items |-> <<>>,
   subtotal |-> amount, tax_amount |-> 0, total_amount |-> amount,
   created_at |-> id, updated_at |-> id]

DashTables ==
  UNION { { {DashRow(k, f[k][1], f[k][2], f[k][3]) : k \in 1..n} :
            f \in [1..n -> Users \X DashAmounts \X DashBranches] } :
          n \in 0..MaxDashRows }

\* u1 is signed in and the Dashboard has just mounted over some table
InitDash ==
  /\ receipts \in DashTables
  /\ usedIds = ReceiptIds
  /\ clock = MaxDashRows
  /\ SeededAccounts
  /\ user = "u1"
  /\ page = "dashboard"
  /\ routeId = 0 /\ routeUser = NoUser
  /\ hist = HistInit /\ disp = DispInit /\ dash = DashInit
  /\ adm = AdmInit /\ admU = AdmUInit /\ prof = ProfInit
  /\ lastSubmit = NoSubmit /\ toast = "" /\ deleted = {} /\ stmt = NoStmt
  /\ net = <<Req("dashList", "u1", 0, 0, <<>>)>>

NextDash ==
  \/ \E i \in DOMAIN net : ServeError(i)
  \/ \E i \in DOMAIN net : ServeSelect(i)
  \/ \E i \in DOMAIN net : DeliverDashList(i)

SpecDash == InitDash /\ [][NextDash]_vars

\* --------------------------------------- specification of the accounts
\* no account has signed up yet
InitAccounts ==
  /\ receipts = {} /\ usedIds = {} /\ clock = 0
  /\ auth_users = {} /\ user_roles = {} /\ usedRoleIds = {} /\ profiles = {}
  /\ receipt_templates = {DefaultTemplate} /\ usedTemplateIds = {1}
  /\ objects = {}
  /\ user = NoUser
  /\ page = "auth"
  /\ routeId = 0 /\ routeUser = NoUser
  /\ hist = HistInit /\ disp = DispInit /\ dash = DashInit
  /\ adm = AdmInit /\ admU = AdmUInit /\ prof = ProfInit
  /\ lastSubmit = NoSubmit /\ toast = "" /\ deleted = {} /\ stmt = NoStmt
  /\ net = <<>>

NextAccounts ==
  \/ \E u \in AccountPool : CreateAccount(u)
  \/ \E e \in {EmailOf(u) : u \in AccountPool} \cup {NoEmail} : MakeUserAdminByEmail(e)

SpecAccounts == InitAccounts /\ [][NextAccounts]_vars

\* ------------------------- specification of the concurrent sign-ups
NextSignUps ==
  \/ \E u \in AccountPool : RunCreateAccount(u)
  \/ \E i \in DOMAIN net : CommitCreateAccount(i)

SpecSignUps == InitAccounts /\ [][NextSignUps]_vars

\* ----------------------------------- specification of the profile page
ProfileNames == {"Asha"}

\* Date.now() when a file is chosen
UploadStamps == {1}

\* the tables the profile page is opened over
ProfileTables ==
  { {}, {DashRow(1, "u1", 100, "Main")},
    {DashRow(1, "u1", 100, "Main"), DashRow(2, "u2", 333, "City")} }

\* a user is signed in and the Profile page has just mounted
InitProfile ==
  /\ receipts \in ProfileTables
  /\ usedIds = ReceiptIds
  /\ clock = Cardinality(receipts)
  /\ SeededAccounts
  /\ user \in Users
  /\ page = "profile"
  /\ routeId = 0 /\ routeUser = NoUser
  /\ hist = HistInit /\ disp = DispInit /\ dash = DashInit
  /\ adm = AdmInit /\ admU = AdmUInit /\ prof = ProfInit
  /\ lastSubmit = NoSubmit /\ toast = "" /\ deleted = {} /\ stmt = NoStmt
  /\ net = ProfileMount(user)

NextProfile ==
  \/ OpenProfile
  \/ OpenDashboard
  \/ \E name \in ProfileNames : HandleSaveProfile(name)
  \/ \E stamp \in UploadStamps : HandleImageUpload(stamp)
  \/ \E i \in DOMAIN net : ServeError(i)
  \/ \E i \in DOMAIN net : ServeSelect(i)
  \/ \E i \in DOMAIN net : ServeGetUser(i)
  \/ \E i \in DOMAIN net : ServeAccounts(i)
  \/ \E i \in DOMAIN net : ServeUpsert(i)
  \/ \E i \in DOMAIN net : ServeUpload(i)
  \/ \E i \in DOMAIN net : DeliverDashList(i)
  \/ \E i \in DOMAIN net : DeliverProfUpload(i)
  \/ \E i \in DOMAIN net : DeliverProfGetUser(i)
  \/ \E i \in DOMAIN net : DeliverProfProfile(i)
  \/ \E i \in DOMAIN net : DeliverProfCount(i)
  \/ \E i \in DOMAIN net : DeliverProfAdmGetUser(i)
  \/ \E i \in DOMAIN net : DeliverProfRole(i)
  \/ \E i \in DOMAIN net : DeliverProfSave(i)

SpecProfile == InitProfile /\ [][NextProfile]_vars

\* ------------------------------------- specification of the page loads
\* the pages that load over requests, opened one after the other by a user who
\* is signed in; the tables change only by the save of the profile
NextLoads ==
  \/ OpenProfile
  \/ OpenDashboard
  \/ OpenHistory
  \/ OpenAdmin
  \/ \E u \in Users : OpenAdminUser(u)
  \/ \E name \in ProfileNames : HandleSaveProfile(name)
  \/ \E i \in DOMAIN net : ServeError(i)
  \/ \E i \in DOMAIN net : ServeSelect(i)
  \/ \E i \in DOMAIN net : ServeGetUser(i)
  \/ \E i \in DOMAIN net : ServeAccounts(i)
  \/ \E i \in DOMAIN net : ServeUpsert(i)
  \/ \E i \in DOMAIN net : DeliverDashList(i)
  \/ \E i \in DOMAIN net : DeliverHistList(i)
  \/ \E i \in DOMAIN net : DeliverProfGetUser(i)
  \/ \E i \in DOMAIN net : DeliverProfProfile(i)
  \/ \E i \in DOMAIN net : DeliverProfCount(i)
  \/ \E i \in DOMAIN net : DeliverProfAdmGetUser(i)
  \/ \E i \in DOMAIN net : DeliverProfRole(i)
  \/ \E i \in DOMAIN net : DeliverProfSave(i)
  \/ \E i \in DOMAIN net : DeliverAdmGetUser(i)
  \/ \E i \in DOMAIN net : DeliverAdmRole(i)
  \/ \E i \in DOMAIN net : DeliverAdmProfiles(i)
  \/ \E i \in DOMAIN net : DeliverAdmCount(i)
  \/ \E i \in DOMAIN net : DeliverAdmUserRole(i)
  \/ \E i \in DOMAIN net : DeliverAdmTemplates(i)
  \/ \E i \in DOMAIN net : DeliverAdmUGetUser(i)
  \/ \E i \in DOMAIN net : DeliverAdmURole(i)
  \/ \E i \in DOMAIN net : DeliverAdmUProfile(i)
  \/ \E i \in DOMAIN net : DeliverAdmUReceipts(i)

SpecLoads == InitProfile /\ [][NextLoads]_vars

\* ----------------------------- specification of the template management
\* what the form holds when Create Template is pressed: the name is empty or
\* not, and either the background and accent colours are entered and the text
\* colours and the font are empty, or the other way round
NewTemplates ==
  { [name |-> n,
     header_bg_color |-> IF e THEN "#0000ff" ELSE "",
     header_text_color |-> IF e THEN "" ELSE "#eeeeee",
     body_bg_color |-> IF e THEN "#0000ff" ELSE "",
     body_text_color |-> IF e THEN "" ELSE "#eeeeee",
     accent_color |-> IF e THEN "#0000ff" ELSE "",
     font_family |-> IF e THEN "" ELSE "Courier"] :
      n \in {"", "Blue"}, e \in BOOLEAN }

\* the admin u1, or u2, is signed in and the admin panel has just mounted
InitTemplates ==
  /\ receipts = {} /\ usedIds = {} /\ clock = 0
  /\ SeededAccounts
  /\ user \in Users
  /\ page = "admin"
  /\ routeId = 0 /\ routeUser = NoUser
  /\ hist = HistInit /\ disp = DispInit /\ dash = DashInit
  /\ adm = AdmInit /\ admU = AdmUInit /\ prof = ProfInit
  /\ lastSubmit = NoSubmit /\ toast = "" /\ deleted = {} /\ stmt = NoStmt
  /\ net = <<ReqUser("admGetUser", user, NoUser, TRUE)>>

NextTemplates ==
  \/ \E newTemplate \in NewTemplates : HandleCreateTemplate(newTemplate)
  \/ \E id \in 1..MaxTemplateIds : HandleDeleteTemplate(id)
  \/ \E i \in DOMAIN net : ServeError(i)
  \/ \E i \in DOMAIN net : ServeSelect(i)
  \/ \E i \in DOMAIN net : ServeGetUser(i)
  \/ \E i \in DOMAIN net : ServeAccounts(i)
  \/ \E i \in DOMAIN net : ServeTemplates(i)
  \/ \E i \in DOMAIN net : DeliverDashList(i)
  \/ \E i \in DOMAIN net : DeliverAdmGetUser(i)
  \/ \E i \in DOMAIN net : DeliverAdmRole(i)
  \/ \E i \in DOMAIN net : DeliverAdmProfiles(i)
  \/ \E i \in DOMAIN net : DeliverAdmCount(i)
  \/ \E i \in DOMAIN net : DeliverAdmUserRole(i)
  \/ \E i \in DOMAIN net : DeliverAdmTemplates(i)
  \/ \E i \in DOMAIN net : DeliverTemplateCreate(i)
  \/ \E i \in DOMAIN net : DeliverTemplateDelete(i)

SpecTemplates == InitTemplates /\ [][NextTemplates]_vars

\* ------------------------------- specification of the monthly analysis
MaxMonthRows == 8

\* the receipt_date of the l-th month label: Nov 2024, Dec 2024, Jan 2025, ...
MonthDate(l) == [y |-> 2024 + ((l + 9) \div 12), m |-> 1 + ((l + 9) % 12), d |-> 15]

\* n receipts of u1 over d month labels: row k carries label 1 + (k - 1) mod d
MonthTable(n, d) ==
  { [DashRow(k, "u1", 100 * k, "Main") EXCEPT !.receipt_date = MonthDate(1 + ((k - 1) % d))] :
      k \in 1..n }

\* every row a label of its own, or the last row back on the first label
MonthTables ==
  {{}} \cup UNION { {MonthTable(n, d) : d \in {n - 1, n} \cap 1..n} :
                     n \in 1..MaxMonthRows }

\* u1 is signed in and the Dashboard has just mounted over a table of many months
InitMonths ==
  /\ receipts \in MonthTables
  /\ usedIds = ReceiptIds
  /\ clock = MaxMonthRows
  /\ SeededAccounts
  /\ user = "u1"
  /\ page = "dashboard"
  /\ routeId = 0 /\ routeUser = NoUser
  /\ hist = HistInit /\ disp = DispInit /\ dash = DashInit
  /\ adm = AdmInit /\ admU = AdmUInit /\ prof = ProfInit
  /\ lastSubmit = NoSubmit /\ toast = "" /\ deleted = {} /\ stmt = NoStmt
  /\ net = <<Req("dashList", "u1", 0, 0, <<>>)>>

SpecMonths == InitMonths /\ [][NextDash]_vars

\* ================================================================ claims
\* the requests that return rows of receipts
ReadKinds == {"histList", "dispGet", "dashList", "admUReceipts"}

\* C1: whatever creates, updates and deletes went before, no step removes or
\* changes a receipt unless the statement it runs is under the owner's identity,
\* and no select answers a user with a row (or a count of rows) of another owner,
\* the admin's per-user list included.
C1_Isolation ==
  [][ /\ \A r \in receipts : r \notin receipts' => stmt'.by = r.user_id
      /\ \A i \in DOMAIN net' :
           net'[i].phase = "done" /\ net'[i].ok =>
             /\ net'[i].kind \in ReadKinds =>
                  \A k \in DOMAIN net'[i].rows :
                    net'[i].rows[k].user_id = net'[i].actor
             /\ net'[i].kind = "admCount" /\ net'[i].who # net'[i].actor =>
                  net'[i].rows[1].count = 0 ]_vars

\* the admin u1 has opened the list of u2, who owns a receipt, and was shown none,
\* and a delete statement of u1 on that receipt has left it in the table
C1_Witness ==
  /\ user = "u1" /\ \E r \in user_roles : r.user_id = "u1" /\ r.role = "admin"
  /\ page = "adminUser" /\ routeUser = "u2"
  /\ ~admU.loading /\ admU.userName = "u2" /\ admU.receipts = <<>>
  /\ stmt.by = "u1" /\ stmt.kind = "delete"
  /\ \E r \in receipts : r.user_id = "u2" /\ r.id = stmt.id

\* C2: once the history page has seen the confirmed delete of r complete, r is
\* not in the table and never returns; the list that delete refetches has no r,
\* on the wire and on the page; and every fetch-by-id of r served from then on
\* fails, upon which the receipt view raises its notice and goes to the dashboard.
C2_DeleteThenGone ==
  [][ /\ \A i \in DOMAIN net :
           DeliverHistDelete(i) /\ net[i].ok =>
             /\ net[i].arg \notin ReceiptIds'
             /\ net'[Len(net')].kind = "histList"
             /\ net'[Len(net')].cause = net[i].arg
      /\ \A id \in deleted : id \notin ReceiptIds'
      /\ \A i \in DOMAIN net' :
           net'[i].kind = "histList" /\ net'[i].cause # 0 /\ net'[i].phase = "done" =>
             \A k \in DOMAIN net'[i].rows : net'[i].rows[k].id # net'[i].cause
      /\ \A i \in DOMAIN net :
           DeliverHistList(i) /\ net[i].ok /\ net[i].live /\ net[i].cause # 0 =>
             \A k \in DOMAIN hist'.receipts : hist'.receipts[k].id # net[i].cause
      /\ \A i \in DOMAIN net :
           /\ net[i].kind = "dispGet" /\ net[i].arg \in deleted
           /\ ServeSelect(i) \/ ServeError(i)
           => ~net'[i].ok
      /\ \A i \in DOMAIN net :
           DeliverDispGet(i) /\ net[i].arg \in deleted =>
             toast' = "Failed to load receipt" /\ page' = "dashboard" ]_vars

\* the receipt view was opened on an id the user deleted earlier: the notice is
\* up and the dashboard is shown
C2_Witness ==
  /\ routeId \in deleted
  /\ toast = "Failed to load receipt" /\ page = "dashboard"
  /\ disp.receipt = <<>>

\* the sum of the lines of a receipt, taken line by line from the first
RECURSIVE LinesFromFirst(_)
LinesFromFirst(items) ==
  IF items = <<>> THEN 0
  ELSE items[1].quantity * items[1].price + LinesFromFirst(Tail(items))

\* C3: every stored receipt has total_amount = subtotal + tax_amount and
\* subtotal = the sum of quantity x price over its items, on the values the
\* DECIMAL(10,2) columns hold.
C3_StoredTotals ==
  \A r \in receipts :
    /\ r.total_amount = r.subtotal + r.tax_amount
    /\ r.subtotal * UnitsPerCent = LinesFromFirst(r.items)

\* C4: on every submission that reaches the computation, subtotal is the sum of
\* quantity x price, tax x 100 is subtotal x taxRate and total is subtotal + tax;
\* the lines (1, 500) and (2, 150) at rate 18 give 800.00, 144.00 and 944.00.
C4_Computation ==
  /\ ComputeTotals(<<Item(1, 500 * Unit), Item(2, 150 * Unit)>>, 18)
       = [subtotal |-> 800 * Unit, tax |-> 144 * Unit, total |-> 944 * Unit]
  /\ ComputeTotals(<<>>, 18) = [subtotal |-> 0, tax |-> 0, total |-> 0]
  /\ lastSubmit.submitted /\ Validate(lastSubmit.input) = "ok" /\ user # NoUser =>
       LET row == net[Len(net)].rows[1]
           in  == lastSubmit.input
       IN  /\ in.tax_rate \in 0..MaxTaxRate
           /\ row.items = in.items
           /\ row.subtotal = LinesFromFirst(in.items)
           /\ row.tax_amount * 100 = row.subtotal * in.tax_rate
           /\ row.total_amount = row.subtotal + row.tax_amount

\* the example has just been submitted and its insert carries 800.00, 144.00, 944.00
C4_Witness ==
  /\ lastSubmit.submitted /\ lastSubmit.input = Example
  /\ net # <<>> /\ net[Len(net)].kind = "formInsert"
  /\ net[Len(net)].rows[1].subtotal = 800 * Unit
  /\ net[Len(net)].rows[1].tax_amount = 144 * Unit
  /\ net[Len(net)].rows[1].total_amount = 944 * Unit

\* an input that breaks at least one of the rules of the validation layer
Violates(input) ==
  \/ input.name_len < 1 \/ input.name_len > MaxNameLen
  \/ input.mobile_len # MobileDigits \/ ~input.mobile_digits
  \/ input.address_len < 1 \/ input.address_len > MaxAddressLen
  \/ input.branch = ""
  \/ input.receipt_date = NoDate
  \/ input.items = <<>>
  \/ \E k \in DOMAIN input.items :
       \/ input.items[k].name_len < 1 \/ input.items[k].name_len > MaxNameLen
       \/ input.items[k].quantity < 1 \/ input.items[k].quantity > MaxQuantity
       \/ input.items[k].price <= 0 \/ input.items[k].price > MaxPrice * Unit
  \/ input.tax_rate < 0 \/ input.tax_rate > MaxTaxRate

\* C5: a submission that breaks a rule (an empty item list among them) raises a
\* validation notice and stays on the form, sends no request and leaves the
\* table as it was; and no request or stored receipt ever carries an item list
\* that is empty or has a line outside the bounds.
C5_Rejected ==
  [][ /\ lastSubmit'.submitted /\ Violates(lastSubmit'.input) =>
           /\ receipts' = receipts /\ net' = net
           /\ toast' # "" /\ page' = page
      /\ \A r \in receipts' :
           r.items # <<>> /\ \A k \in DOMAIN r.items : ItemValid(r.items[k])
      /\ \A i \in DOMAIN net' :
           net'[i].kind = "formInsert" /\ net'[i].rows # <<>> =>
             net'[i].rows[1].items # <<>> ]_vars

\* a submission with no items has just been turned down while a receipt is stored
C5_Witness ==
  /\ lastSubmit.submitted /\ lastSubmit.input.items = <<>>
  /\ toast = "items" /\ page = "form"
  /\ receipts # {} /\ net = <<>>

\* the requests that read or write receipts, profiles, roles or templates
DataKinds ==
  {"formInsert", "admRole", "admProfiles", "admTemplates", "admCount", "admUserRole",
   "admURole", "admUProfile", "admUReceipts"}

\* C6: without a signed-in user, creating a receipt, opening the admin panel and
\* opening a per-user receipt list each lead to the sign-in page, and none of
\* them sends a request that reads or writes receipts, profiles, roles or templates.
C6_Unauthenticated ==
  [][ /\ \A i \in DOMAIN net' :
           net'[i].kind \in DataKinds => net'[i].actor # NoUser
      /\ \A i \in DOMAIN net :
           (DeliverAdmGetUser(i) \/ DeliverAdmUGetUser(i)) /\ net[i].actor = NoUser =>
             /\ page' = "auth"
             /\ Len(net') = Len(net) - 1
             /\ UNCHANGED backend
      /\ lastSubmit'.submitted /\ Validate(lastSubmit'.input) = "ok" /\ user = NoUser =>
           page' = "auth" /\ UNCHANGED backend /\ Len(net') = Len(net) ]_vars

\* nobody is signed in, the admin panel has been opened and has sent the client
\* to the sign-in page
C6_Witness ==
  /\ user = NoUser /\ page = "auth" /\ net = <<>>
  /\ adm = [AdmInit EXCEPT !.loading = FALSE]

C8_FetchFails ==
  [][ \A i \in DOMAIN net :
        /\ ServeSelect(i) /\ net[i].kind = "dispGet" /\ net[i].arg \notin ReceiptIds =>
             ~net'[i].ok
        /\ DeliverDispGet(i) /\ ~net[i].ok =>
             /\ toast' = "Failed to load receipt"
             /\ page' = "dashboard"
             /\ disp'.receipt = disp.receipt
             /\ net[i].live => ~disp'.loading ]_vars

\* the view was opened on an id that no receipt has; it has stopped loading with
\* nothing to show, the notice is up and the dashboard is shown
C8_Witness ==
  /\ routeId \in Ids \ usedIds
  /\ toast = "Failed to load receipt" /\ page = "dashboard"
  /\ ~disp.loading /\ disp.receipt = <<>>

\* the amounts of the rows whose branch is among `branches`, added from the first
RECURSIVE AmountsFromFirst(_, _)
AmountsFromFirst(rows, branches) ==
  IF rows = <<>> THEN 0
  ELSE (IF rows[1].branch \in branches THEN rows[1].total_amount ELSE 0)
       + AmountsFromFirst(Tail(rows), branches)

RECURSIVE FieldSum(_, _)
FieldSum(entries, field) ==
  IF entries = <<>> THEN 0 ELSE entries[1][field] + FieldSum(Tail(entries), field)

\* C9: the fetch returns the receipts the user may see; on success total income
\* is the sum of their total_amount, total receipts is their number, and the
\* average shown is within half a paisa of income / count, or 0.00 when there
\* is none; on failure the statistics are the initial zeros and the average 0.00.
C9_DashboardStats ==
  [][ \A i \in DOMAIN net :
        /\ ServeSelect(i) /\ net[i].kind = "dashList" =>
             /\ net'[i].ok
             /\ {net'[i].rows[k] : k \in DOMAIN net'[i].rows}
                  = {r \in receipts : r.user_id = net[i].actor}
             /\ Len(net'[i].rows) = Cardinality({r \in receipts : r.user_id = net[i].actor})
        /\ DeliverDashList(i) /\ net[i].live =>
             LET st == dash'.stats
                 n  == Len(net[i].rows)
             IN  IF net[i].ok
                 THEN /\ st.totalIncome = AmountsFromFirst(net[i].rows,
                             {net[i].rows[j].branch : j \in DOMAIN net[i].rows})
                      /\ st.totalReceipts = n
                      /\ AvgReceiptValue(st) # {}
                      /\ \A v \in AvgReceiptValue(st) :
                           IF n = 0 THEN v = 0
                           ELSE /\ 2 * (v * n - st.totalIncome) <= n
                                /\ 2 * (st.totalIncome - v * n) <= n
                 ELSE /\ st = InitialStats
                      /\ st.totalIncome = 0 /\ st.totalReceipts = 0
                      /\ AvgReceiptValue(st) = {0} ]_vars

\* the dashboard shows two receipts of 1.00 and 3.33: income 4.33, average 2.16 or 2.17
C9_Witness ==
  /\ page = "dashboard" /\ ~dash.loading
  /\ dash.stats.totalReceipts = 2 /\ dash.stats.totalIncome = 433
  /\ AvgReceiptValue(dash.stats) = {216, 217}
  /\ \E r \in receipts : r.user_id # user

\* C10: the per-branch data has one entry for each branch string among the
\* fetched receipts and no other, with the sum of total_amount and the number of
\* the receipts of exactly that string; the amounts add up to total income and
\* the counts to total receipts.
C10_BranchData ==
  [][ \A i \in DOMAIN net :
        DeliverDashList(i) /\ net[i].live /\ net[i].ok =>
          LET rows == net[i].rows
              bd   == dash'.stats.branchData
          IN  /\ {bd[k].branch : k \in DOMAIN bd} = {rows[j].branch : j \in DOMAIN rows}
              /\ \A a, b \in DOMAIN bd : bd[a].branch = bd[b].branch => a = b
              /\ \A k \in DOMAIN bd :
                   /\ bd[k].count
                        = Cardinality({j \in DOMAIN rows : rows[j].branch = bd[k].branch})
                   /\ bd[k].amount = AmountsFromFirst(rows, {bd[k].branch})
              /\ FieldSum(bd, "amount") = dash'.stats.totalIncome
              /\ FieldSum(bd, "count") = dash'.stats.totalReceipts ]_vars

\* three receipts under "Main", "main" and "Main" are shown as two entries, the
\* first with count 2
C10_Witness ==
  /\ page = "dashboard" /\ ~dash.loading /\ dash.stats.totalReceipts = 3
  /\ Len(dash.stats.branchData) = 2
  /\ dash.stats.branchData[1].branch = "Main" /\ dash.stats.branchData[1].count = 2
  /\ dash.stats.branchData[2].branch = "main" /\ dash.stats.branchData[2].count = 1
  /\ dash.stats.branchData[1].amount = 433

\* the rows that are the first of their month label in the fetched sequence
FirstSeen(rows) ==
  {j \in DOMAIN rows :
     \A h \in 1..(j - 1) : MonthKey(rows[h].receipt_date) # MonthKey(rows[j].receipt_date)}

RECURSIVE MonthAmountFromFirst(_, _)
MonthAmountFromFirst(rows, label) ==
  IF rows = <<>> THEN 0
  ELSE (IF MonthKey(rows[1].receipt_date) = label THEN rows[1].total_amount ELSE 0)
       + MonthAmountFromFirst(Tail(rows), label)

\* C11: the monthly data has at most six entries; it lists the month labels of
\* the fetched rows in the order of their first occurrence, all of them when
\* there are at most six and the last six otherwise, each with the sum of
\* total_amount of all fetched rows carrying the label.
C11_MonthlyData ==
  [][ \A i \in DOMAIN net :
        DeliverDashList(i) /\ net[i].live /\ net[i].ok =>
          LET rows  == net[i].rows
              md    == dash'.stats.monthlyData
              first == FirstSeen(rows)
              D     == Cardinality(first)
          IN  /\ Len(md) <= 6
              /\ Len(md) = IF D > 6 THEN 6 ELSE D
              /\ \A k \in DOMAIN md :
                   \E j \in first :
                     /\ Cardinality({h \in first : h <= j}) = D - Len(md) + k
                     /\ md[k].month = MonthKey(rows[j].receipt_date)
                     /\ md[k].amount = MonthAmountFromFirst(rows, md[k].month) ]_vars

\* eight receipts of seven months are stored and six months are shown; the latest
\* month, fetched first, is the one left out, and the earliest month is shown
\* with the sum of both its receipts
C11_Witness ==
  /\ page = "dashboard" /\ ~dash.loading
  /\ Cardinality({MonthKey(r.receipt_date) : r \in receipts}) = 7
  /\ Len(dash.stats.monthlyData) = 6
  /\ \A k \in 1..6 : dash.stats.monthlyData[k].month # MonthKey(MonthDate(7))
  /\ \E k \in 1..6 : /\ dash.stats.monthlyData[k].month = MonthKey(MonthDate(1))
                      /\ dash.stats.monthlyData[k].amount = 900
  /\ dash.stats.totalReceipts = 8

\* the notices of the actions that are not implemented
PlaceholderNotices ==
  { "Email updates require contacting system administrator",
    "Password updates require contacting system administrator",
    "User management features require backend API",
    "User deletion requires backend API access",
    "User blocking requires backend API access",
    "User unblocking requires backend API access",
    "Direct login requires backend API access" }

RolesIn(roles, u) == {r.role : r \in {x \in roles : x.user_id = u}}

\* C13: the account created first has the admin role from its creation on, an
\* account created later has the user role when it is created, and a role
\* changes only in a call of make_user_admin_by_email, to admin.
C13_FirstIsAdmin ==
  [][ /\ \A a \in auth_users' : a.created = 1 => RolesIn(user_roles', a.id) = {"admin"}
      /\ \A a \in auth_users' \ auth_users :
           a.created > 1 => RolesIn(user_roles', a.id) = {"user"}
      /\ \A a \in auth_users :
           RolesIn(user_roles', a.id) # RolesIn(user_roles, a.id) =>
             /\ MakeUserAdminByEmail(a.email)
             /\ RolesIn(user_roles', a.id) = {"admin"} ]_vars

\* C14: after any creations of accounts and calls of make_user_admin_by_email,
\* every account has exactly one profile, which carries its e-mail address, and
\* exactly one row of user_roles, and no profile or role is without an account.
C14_OneProfileOneRole ==
  /\ \A a \in auth_users :
       /\ {q \in profiles : q.id = a.id} = {[id |-> a.id, full_name |-> a.id, email |-> a.email]}
       /\ Cardinality({r \in user_roles : r.user_id = a.id}) = 1
  /\ Cardinality(profiles) = Cardinality(auth_users)
  /\ Cardinality(user_roles) = Cardinality(auth_users)
  /\ \A r \in user_roles : \E a \in auth_users : a.id = r.user_id

\* three accounts exist and three promotions have been made, of two of them
C14_Witness ==
  /\ Cardinality(auth_users) = 3
  /\ Cardinality({r \in user_roles : r.role = "admin"}) = 2
  /\ Cardinality(usedRoleIds) = MaxRoleIds
  /\ Cardinality(profiles) = 3

\* the step in which a handler takes the answer of request i
DeliverAny(i) ==
  \/ DeliverDashList(i) \/ DeliverHistList(i) \/ DeliverHistDelete(i)
  \/ DeliverDispGet(i) \/ DeliverFormInsert(i)
  \/ DeliverAdmGetUser(i) \/ DeliverAdmRole(i) \/ DeliverAdmProfiles(i)
  \/ DeliverAdmCount(i) \/ DeliverAdmUserRole(i) \/ DeliverAdmTemplates(i)
  \/ DeliverAdmUGetUser(i) \/ DeliverAdmURole(i) \/ DeliverAdmUProfile(i)
  \/ DeliverAdmUReceipts(i)

\* the calls that fetch, list, insert and delete receipts, fetch the dashboard,
\* and list the users, their counts and the templates for the admin
ListedKinds ==
  {"dispGet", "histList", "histDelete", "dashList", "formInsert",
   "admProfiles", "admCount", "admTemplates"}

\* C15: whenever a handler takes the answer of one of these remote calls that
\* has failed, on any page, for a read or a write, it raises a notice.
C15_FailureNotified ==
  [][ \A i \in DOMAIN net :
        DeliverAny(i) /\ net[i].kind \in ListedKinds /\ ~net[i].ok => toast' # "" ]_vars

\* the account has a row of user_roles with the role admin
IsAdminAccount(u) == \E r \in user_roles : r.user_id = u /\ r.role = "admin"

\* the requests that read users, templates or receipts for the admin pages
AdminDataKinds ==
  {"admProfiles", "admTemplates", "admCount", "admUserRole", "admUProfile", "admUReceipts"}

\* C16: the admin pages send their requests for users, templates and receipts
\* only under an account that holds the admin role, and hold or show such data
\* only for such an account; when the role query answers a signed-in account
\* that is not admin, the page raises the access-denied notice, goes to the
\* dashboard and sends none of these requests.
C16_AdminGate ==
  [][ /\ \A i \in DOMAIN net' :
           net'[i].kind \in AdminDataKinds => IsAdminAccount(net'[i].actor)
      /\ adm'.isAdmin \/ adm'.users # <<>> \/ adm'.templates # <<>> \/ adm'.pending # <<>>
           => IsAdminAccount(user')
      /\ admU'.receipts # <<>> \/ admU'.userName # "" => IsAdminAccount(user')
      /\ \A i \in DOMAIN net :
           /\ DeliverAdmRole(i) \/ DeliverAdmURole(i)
           /\ net[i].actor # NoUser /\ ~IsAdminAccount(net[i].actor)
           => /\ toast' = "Access denied - Admin only"
              /\ page' = "dashboard"
              /\ adm' = adm \/ adm' = [adm EXCEPT !.loading = FALSE]
              /\ admU' = admU \/ admU' = [admU EXCEPT !.loading = FALSE] ]_vars

\* u2, who is not admin and owns a receipt, has opened the admin panel: the
\* notice is up, the dashboard is shown and the panel holds no data
C16_Witness ==
  /\ user = "u2" /\ ~IsAdminAccount("u2")
  /\ toast = "Access denied - Admin only" /\ page = "dashboard"
  /\ adm = [AdmInit EXCEPT !.loading = FALSE]
  /\ \E r \in receipts : r.user_id = "u2"

\* C17: the count the admin panel gets and lists for a profile is the number of
\* receipts stored with that profile's id as owner, whoever the profile is.
C17_ReceiptCounts ==
  [][ \A i \in DOMAIN net :
        /\ ServeSelect(i) /\ net[i].kind = "admCount" =>
             net'[i].ok /\ net'[i].rows[1].count
                            = Cardinality({r \in receipts : r.user_id = net[i].who})
        /\ DeliverAdmCount(i) /\ net[i].ok =>
             \E k \in DOMAIN adm'.pending :
               /\ adm'.pending[k].id = net[i].who
               /\ adm'.pending[k].receipt_count
                    = Cardinality({r \in receipts : r.user_id = net[i].who}) ]_vars

\* C18: a stored receipt stays in the table with every field as it is, unless
\* its owner deletes it.
C18_Immutable ==
  [][ \A r \in receipts :
        r \in receipts' \/ (r.id \notin ReceiptIds' /\ stmt'.kind = "delete"
                                /\ stmt'.by = r.user_id) ]_vars

\* C18, amended: a stored receipt stays as it is in every step of the client
\* other than the owner's delete; an UPDATE on the table interface changes it
\* only under its owner's identity and leaves it with the same owner; nothing
\* a user who is not the owner does removes or changes it.
C18_OwnerOnlyChanges ==
  [][ \A r \in receipts :
        \/ r \in receipts'
        \/ /\ r.id \notin ReceiptIds'
           /\ stmt'.kind = "delete" /\ stmt'.by = r.user_id /\ stmt'.id = r.id
        \/ /\ stmt'.kind = "update" /\ stmt'.by = r.user_id /\ stmt'.id = r.id
           /\ net' = net /\ UNCHANGED client
           /\ \E q \in receipts' \ receipts : q.id = r.id /\ q.user_id = r.user_id
           /\ Cardinality(receipts') = Cardinality(receipts) ]_vars

\* the owner's update has changed the total of a stored receipt, which no longer
\* is the sum of its subtotal and tax
C18_Witness ==
  /\ stmt.kind = "update"
  /\ \E r \in receipts :
       /\ r.id = stmt.id /\ r.user_id = stmt.by
       /\ r.total_amount \in UpdateAmounts /\ r.total_amount # r.subtotal + r.tax_amount

\* C20: every profile upsert Save Profile issues is keyed by the id of the signed
\* in user, also when Save is pressed before the profile fetch has answered,
\* and no profile row is written under another key.
C20_UpsertKey ==
  /\ \A i \in DOMAIN net :
       net[i].kind = "profSave" => net[i].rows[1].id = net[i].actor
  /\ \A q \in profiles : q.id \in Users

\* the requests of q that have been answered and wait for their continuation
DoneCount(q) == Cardinality({i \in DOMAIN q : q[i].phase = "done"})

\* the step runs the continuation of an answered request
Resumed == DoneCount(net') < DoneCount(net)

\* the number of requests the step issues
Issued == Len(net') - Len(net) + (IF Resumed THEN 1 ELSE 0)

\* what the pages display of the data they fetch
Shown ==
  <<hist.receipts, disp.receipt, dash.stats, adm.isAdmin, adm.users, adm.templates,
    admU.receipts, admU.userName, prof.userId, prof.email, prof.receiptCount,
    prof.isAdmin>>

\* the displayed data changes only in the continuation of an answered request,
\* or when the page is left
ShownAfterCompletion == Shown' # Shown => Resumed \/ page' # page

\* C19: every user action and every continuation issues at most one request,
\* so that an action never has two requests in flight, and the displayed data
\* changes only once the request has been answered.
C19_OneInFlight == [][ Issued <= 1 /\ ShownAfterCompletion ]_vars

\* the mount of the profile page starts its three fetches together
ProfileLoadStep ==
  /\ page # "profile" /\ page' = "profile"
  /\ net' = Unmount(net) \o ProfileMount(user)

\* the admin panel, once the role is confirmed, fetches the user list and the
\* template list together
AdminFetchStep ==
  \E i \in DOMAIN net :
    /\ net[i].kind = "admRole" /\ net[i].phase = "done"
    /\ net' = RemoveAt(net, i)
                \o <<ReqUser("admProfiles", user, NoUser, net[i].live),
                     ReqUser("admTemplates", user, NoUser, net[i].live)>>

\* the admin panel, once the user list is there, starts the queries of every
\* listed user together
AdminCountsStep ==
  \E i \in DOMAIN net :
    /\ net[i].kind = "admProfiles" /\ net[i].phase = "done"
    /\ Issued = Len(net[i].rows)
    /\ \A k \in Len(net)..Len(net') : net'[k].kind = "admCount"

\* C19, amended: the profile page load, the admin panel's two list fetches and
\* its per-user queries are the only steps that issue several requests at
\* once; every other action or continuation issues at most one; the displayed
\* data changes only once the request has been answered.
C19_OneInFlightButLoads ==
  [][ /\ Issued <= 1 \/ ProfileLoadStep \/ AdminFetchStep \/ AdminCountsStep
      /\ ShownAfterCompletion ]_vars

\* the user list and the template list of the admin panel are in flight together
C19_Witness ==
  /\ page = "admin" /\ adm.isAdmin
  /\ \E i, j \in DOMAIN net :
       /\ net[i].kind = "admProfiles" /\ net[i].phase = "sent"
       /\ net[j].kind = "admTemplates" /\ net[j].phase = "sent"

\* the delete requests of the history page in q
DeleteRequests(q) == {i \in DOMAIN q : q[i].kind = "histDelete"}

\* C21: a delete whose confirmation is declined sends no request, neither the
\* delete nor a refetch, and leaves the table and the list shown as they were;
\* a delete request is sent only by a delete whose confirmation was accepted.
C21_DeclinedDelete ==
  [][ /\ (\E id \in Ids : HandleDelete(id, FALSE)) =>
           net' = net /\ receipts' = receipts /\ hist' = hist /\ page' = page
      /\ Cardinality(DeleteRequests(net')) > Cardinality(DeleteRequests(net)) =>
           \E id \in Ids :
             /\ HandleDelete(id, TRUE)
             /\ net'[Len(net')].arg = id /\ net'[Len(net')].kind = "histDelete" ]_vars

\* the history page shows a stored receipt after an earlier delete went through
\* and nothing is in flight: the prompt of the receipt shown can be declined
C21_Witness ==
  /\ page = "history" /\ ~hist.loading /\ net = <<>>
  /\ deleted # {}
  /\ \E k \in DOMAIN hist.receipts : \E r \in receipts : r.id = hist.receipts[k].id

\* the value the claim gives a field of a new template left empty
FixedDefault(f) ==
  CASE f = "header_bg_color"   -> "#1a1a1a"
    [] f = "header_text_color" -> "#ffffff"
    [] f = "body_bg_color"     -> "#ffffff"
    [] f = "body_text_color"   -> "#000000"
    [] f = "accent_color"      -> "#3b82f6"
    [] f = "font_family"       -> "Arial"

\* C22: Create Template with an empty name raises the notice that the name is
\* required and sends nothing; with a name, whatever the other fields hold, it
\* sends one insert whose row has that name and, for each colour and the font,
\* the entered value or else the fixed default; the row stored is the row sent.
C22_CreateTemplate ==
  [][ /\ \A nt \in NewTemplates :
           HandleCreateTemplate(nt) =>
             IF nt.name = ""
             THEN /\ toast' = "Template name is required"
                  /\ net' = net /\ receipt_templates' = receipt_templates
             ELSE /\ Len(net') = Len(net) + 1
                  /\ net'[Len(net')].kind = "tmplInsert"
                  /\ LET row == net'[Len(net')].rows[1]
                     IN  /\ row.name = nt.name
                         /\ \A f \in DOMAIN nt \ {"name"} :
                              row[f] = IF nt[f] # "" THEN nt[f] ELSE FixedDefault(f)
      /\ \A i \in DOMAIN net :
           net[i].kind = "tmplInsert" /\ ServeTemplates(i) =>
             \E t \in receipt_templates' \ receipt_templates :
               \A f \in DOMAIN net[i].rows[1] : t[f] = net[i].rows[1][f]
      /\ \A t \in receipt_templates' : t.name # "" ]_vars

\* the panel lists a template created with the name and the background colours
\* entered and the text colours and the font left empty
C22_Witness ==
  /\ AdminShown
  /\ \E k \in DOMAIN adm.templates :
       /\ adm.templates[k].name = "Blue"
       /\ adm.templates[k].header_bg_color = "#0000ff"
       /\ adm.templates[k].body_text_color = "#000000"
       /\ adm.templates[k].font_family = "Arial"
       /\ adm.templates[k] \in receipt_templates

\* C23: a template flagged as default is never removed; a delete request names
\* a template the panel shows as not default, it is sent as soon as the button
\* is pressed, and the database removes the row it names whatever refers to it.
C23_DefaultsStay ==
  [][ /\ \A t \in receipt_templates : t.is_default => t \in receipt_templates'
      /\ \A id \in 1..MaxTemplateIds :
           HandleDeleteTemplate(id) =>
             /\ \E k \in DOMAIN adm.templates :
                  adm.templates[k].id = id /\ ~adm.templates[k].is_default
             /\ net' = Append(net, Req("tmplDelete", user, id, 0, <<>>))
      /\ \A i \in DOMAIN net' :
           net'[i].kind = "tmplDelete" =>
             ~\E t \in receipt_templates' : t.id = net'[i].arg /\ t.is_default
      /\ \A i \in DOMAIN net :
           net[i].kind = "tmplDelete" /\ ServeTemplates(i) =>
             ~\E t \in receipt_templates' : t.id = net[i].arg ]_vars

\* a template was created and deleted again: the notice is up and the default
\* template alone is stored
C23_Witness ==
  /\ toast = "Template deleted successfully"
  /\ usedTemplateIds # {1}
  /\ receipt_templates = {DefaultTemplate}

\* C24: every object of the profiles bucket lies under the path prefix that is
\* the id of the user who wrote it, every upload the profile page sends goes to
\* the prefix that is the id of the signed in user, and every client, signed in
\* or not, may read every object of the bucket.
C24_StoragePaths ==
  /\ \A o \in objects : o.folder = o.owner
  /\ \A i \in DOMAIN net :
       net[i].kind = "profUpload" /\ net[i].phase = "sent" =>
         net[i].rows[1].folder = net[i].actor
  /\ \A uid \in Users \cup {NoUser}, o \in objects : StorageSelectPolicy(uid, o)

\* the ids of the receipts u owns
OwnIds(u) == {r.id : r \in {x \in receipts : x.user_id = u}}

\* C25: a fetch by id of a receipt the user does not own is answered with the
\* same failure and no row, whether a receipt of that id is stored for another
\* user or not; on that answer the receipt view raises its failure notice, goes
\* to the dashboard and shows no data of the receipt.
C25_NoExistenceLeak ==
  [][ \A i \in DOMAIN net :
        net[i].kind = "dispGet" /\ net[i].arg \notin OwnIds(net[i].actor) =>
          /\ ServeSelect(i) \/ ServeError(i) =>
               net'[i].phase = "done" /\ ~net'[i].ok /\ net'[i].rows = <<>>
          /\ DeliverDispGet(i) =>
               /\ toast' = "Failed to load receipt"
               /\ page' = "dashboard"
               /\ disp'.receipt = disp.receipt ]_vars

\* u1 asked for a receipt that u2 owns: the failure notice is up and the
\* dashboard is shown, just as for an id that is not stored
C25_Witness ==
  /\ user = "u1" /\ page = "dashboard" /\ toast = "Failed to load receipt"
  /\ \E r \in receipts : r.id = routeId /\ r.user_id = "u2"

C27_OverlappingDeletes ==
  [][ \A i \in DOMAIN net :
        DeliverHistList(i) /\ net[i].ok /\ net[i].live /\ net' = <<>> /\ deleted # {} =>
          /\ {hist'.receipts[k].id : k \in DOMAIN hist'.receipts} = OwnIds(user)
          /\ \A k \in DOMAIN hist'.receipts : hist'.receipts[k].id \notin deleted ]_vars

\* C28: the subtotal, the tax and the total of a receipt that passes validation
\* fit the DECIMAL(10,2) columns, so that its insert does not fail on the range
\* of a number.
C28_FitsColumns ==
  lastSubmit.submitted =>
    LET t == ComputeTotals(lastSubmit.input.items, lastSubmit.input.tax_rate)
    IN  /\ t.subtotal < DecimalLimit /\ t.tax < DecimalLimit /\ t.total < DecimalLimit
        /\ toast # "Failed to create receipt"

\* C29: make_user_admin_by_email called with an address of no account raises
\* its error and leaves user_roles as it was; called with the address of an
\* account it raises none, leaves that account with exactly one role row, of the
\* role admin, and leaves the role rows of every other account as they were.
C29_PromotionByEmail ==
  [][ \A e \in {EmailOf(u) : u \in AccountPool} \cup {NoEmail} :
        MakeUserAdminByEmail(e) =>
          LET target == {a.id : a \in {x \in auth_users : x.email = e}}
          IN  IF target = {}
              THEN user_roles' = user_roles /\ toast' = "User with email not found"
              ELSE /\ toast' = ""
                   /\ \A t \in target :
                        /\ Cardinality({r \in user_roles' : r.user_id = t}) = 1
                        /\ RolesIn(user_roles', t) = {"admin"}
                   /\ {r \in user_roles' : r.user_id \notin target}
                        = {r \in user_roles : r.user_id \notin target} ]_vars

\* two accounts exist, one promoted and one with the role it signed up with, and
\* the last call named an address of no account
C29_Witness ==
  /\ toast = "User with email not found"
  /\ \E a, b \in auth_users :
       /\ RolesIn(user_roles, a.id) = {"admin"} /\ RolesIn(user_roles, b.id) = {"user"}
       /\ Cardinality({r \in user_roles : r.user_id = a.id}) = 1

\* C30: in the receipt view, once every fetch it issued has completed, the
\* receipt displayed, if any, is the one of the current route id, and the view
\* redirects to the dashboard only when the fetch of the current route id has
\* failed, also when the route id changes while an earlier fetch is in flight.
C30_CurrentReceipt ==
  [][ user # NoUser =>
        /\ (page' = "receipt" /\ net' = <<>> /\ disp'.receipt # <<>>) =>
             disp'.receipt[1].id = routeId'
        /\ \A i \in DOMAIN net :
             (DeliverDispGet(i) /\ net[i].live /\ page = "receipt"
              /\ page' = "dashboard") =>
               (net[i].arg = routeId /\ ~net[i].ok) ]_vars

====
